---- MODULE Spec2Model ----
(***************************************************************************)
(* Job scoring and tiering engine of jobpilot (core/ranker.py with its     *)
(* collaborators core/immigration.py and core/networking.py).              *)
(*                                                                         *)
(* Text is modelled by TLA+ strings and every keyword test is the literal  *)
(* substring test the Python code performs.  Scores are integers.  The     *)
(* weighted total, a float with one decimal in the code, is kept in tenths *)
(* (72.5 is 725); salaries are whole currency units.                       *)
(***************************************************************************)
EXTENDS Integers, Sequences, FiniteSets, TLC

(***************************************************************************)
(* Python string primitives: str.lower, str.strip, the `in` operator.      *)
(***************************************************************************)
\* lower-case letter of every upper-case ASCII letter
LOWER_OF ==
    [A |-> "a", B |-> "b", C |-> "c", D |-> "d", E |-> "e", F |-> "f",
     G |-> "g", H |-> "h", I |-> "i", J |-> "j", K |-> "k", L |-> "l",
     M |-> "m", N |-> "n", O |-> "o", P |-> "p", Q |-> "q", R |-> "r",
     S |-> "s", T |-> "t", U |-> "u", V |-> "v", W |-> "w", X |-> "x",
     Y |-> "y", Z |-> "z"]

Ch(s, i) == SubSeq(s, i, i)

LowerChar(c) == IF c \in DOMAIN LOWER_OF THEN LOWER_OF[c] ELSE c

RECURSIVE LowerFrom(_, _)
LowerFrom(s, i) ==
    IF i > Len(s) THEN "" ELSE LowerChar(Ch(s, i)) \o LowerFrom(s, i + 1)

Lower(s) == LowerFrom(s, 1)

IsSpace(c) == c \in {" ", "\t", "\n"}

Strip(s) ==
    IF \A i \in 1..Len(s) : IsSpace(Ch(s, i)) THEN ""
    ELSE LET a == CHOOSE i \in 1..Len(s) :
                    /\ ~IsSpace(Ch(s, i))
                    /\ \A j \in 1..(i - 1) : IsSpace(Ch(s, j))
             b == CHOOSE i \in 1..Len(s) :
                    /\ ~IsSpace(Ch(s, i))
                    /\ \A j \in (i + 1)..Len(s) : IsSpace(Ch(s, j))
         IN  SubSeq(s, a, b)

\* sub in s
In(sub, s) ==
    \E i \in 0..(Len(s) - Len(sub)) : SubSeq(s, i + 1, i + Len(sub)) = sub

\* any(kw in s for kw in kws), kws a sequence of strings
AnyIn(kws, s) == \E k \in 1..Len(kws) : In(kws[k], s)

\* index of the first element of kws that occurs in s, 0 when none does
FirstIn(kws, s) ==
    IF AnyIn(kws, s)
    THEN CHOOSE k \in 1..Len(kws) :
            /\ In(kws[k], s)
            /\ \A j \in 1..(k - 1) : ~In(kws[j], s)
    ELSE 0

(***************************************************************************)
(* Python dict primitives: dict.get(key, default) and dict.update.         *)
(***************************************************************************)
Get(d, k, default) == IF k \in DOMAIN d THEN d[k] ELSE default

Update(d, upd) ==
    [k \in (DOMAIN d) \cup (DOMAIN upd) |->
        IF k \in DOMAIN upd THEN upd[k] ELSE d[k]]

\* Python's None as the value of a text field: a reserved string that no
\* posting text contains.  Every operation on a field below says what the
\* code does when the field is None.
None == "<None>"

\* (x or "")
OrEmpty(x) == IF x = None THEN "" ELSE x

\* str(x), as an f-string formats x
Str(x) == IF x = None THEN "None" ELSE x

Max(a, b) == IF a >= b THEN a ELSE b
Min(a, b) == IF a <= b THEN a ELSE b
\* variant of Clamp: the upper bound is forgotten
ClampLowOnly(x) == Max(0, x)

Clamp(x) == Min(100, Max(0, x))

(***************************************************************************)
(* Static tables of core/ranker.py                                         *)
(***************************************************************************)
\* weights in hundredths
WEIGHTS == [skills_match |-> 30, immigration_fit |-> 25,
            interview_format |-> 15, salary_score |-> 10,
            company_score |-> 10, success_probability |-> 10]

COMPANY_TIERS ==
    [tier1 |-> <<"amazon", "google", "microsoft", "meta", "apple", "nvidia",
                 "salesforce", "shopify", "stripe", "databricks", "snowflake",
                 "openai", "anthropic", "cohere", "hugging face",
                 "lululemon", "hootsuite", "slack", "mastercard",
                 "deloitte", "mckinsey", "bcg", "bain", "accenture", "pwc",
                 "ey", "kpmg",
                 "rbc", "td", "bmo", "scotiabank", "cibc",
                 "telus", "shaw", "bc hydro">>,
     tier2 |-> <<"clio", "bench", "dapper labs", "trulioo", "later",
                 "absolute software", "d-wave", "1password",
                 "thinkific", "procurify", "vidyard", "freshbooks",
                 "vancouver coastal health", "phsa", "bc cancer",
                 "fortinet", "borealis ai">>]

TIER1_COMPANIES ==
    <<"amazon", "google", "microsoft", "meta", "apple", "netflix",
      "lululemon", "shopify", "rbc", "td", "bmo", "cibc", "scotiabank",
      "telus", "bchydro", "bc hydro", "deloitte", "pwc", "ey", "kpmg",
      "mckinsey", "bain", "bcg", "accenture">>

SMALL_COMPANIES_OR_STARTUPS ==
    <<"bench", "clio", "hootsuite", "later", "absolute", "d-wave",
      "copperleaf", "eventbase", "finger food", "grow">>

IMMIGRANT_FRIENDLY_COMPANIES ==
    <<"amazon", "microsoft", "google", "meta", "apple",
      "shopify", "clio", "d-wave", "hootsuite",
      "rbc", "td", "deloitte", "ey", "pwc", "kpmg",
      "phsa", "vancouver coastal health", "bc cancer">>

LIVE_CODING_COMPANIES ==
    <<"google", "meta", "amazon", "apple", "netflix",
      "microsoft", "uber", "airbnb", "stripe", "doordash", "instacart",
      "databricks", "snowflake", "palantir", "linkedin">>

TAKEHOME_COMPANIES ==
    <<"hootsuite", "later", "clio", "bench", "copperleaf",
      "visier", "absolute", "eventbase", "finger food",
      "grow", "thinkific", "trulioo", "benevity",
      "lululemon", "aritzia", "london drugs",
      "translink", "icbc", "bc hydro", "worksafe",
      "first west", "vancity", "coast capital",
      "phsa", "vancouver coastal health", "bc cancer",
      "city of vancouver",
      "deloitte", "ey", "kpmg", "accenture", "bdo",
      "bain", "bcg",
      "rbc", "td", "bmo", "cibc", "scotiabank", "hsbc">>

(***************************************************************************)
(* core/immigration.py                                                     *)
(***************************************************************************)
BCPNP_TECH_NOCS ==
    {"20012", "21211", "21220", "21221", "21222", "21223", "21230",
     "21231", "21232", "21233", "21234", "21311", "22220", "22222"}

NOC_DESCRIPTIONS ==
    [n \in BCPNP_TECH_NOCS \cup {"11201"} |->
        CASE n = "20012" -> "Computer and Information Systems Managers"
          [] n = "21211" -> "Data Scientists"
          [] n = "21220" -> "Cybersecurity Specialists"
          [] n = "21221" -> "Business Systems Specialists"
          [] n = "21222" -> "Information Systems Specialists"
          [] n = "21223" -> "Database Analysts and Data Administrators"
          [] n = "21230" -> "Computer Systems Developers and Programmers"
          [] n = "21231" -> "Software Engineers and Designers"
          [] n = "21232" -> "Software Developers"
          [] n = "21233" -> "Web Designers"
          [] n = "21234" -> "Web Developers and Programmers"
          [] n = "21311" -> "Computer Engineers"
          [] n = "22220" -> "Computer Network and Web Technicians"
          [] n = "22222" -> "Information Systems Testing Technicians"
          [] n = "11201" ->
               "Professional Occupations in Business Management Consulting"]

\* insertion order of the dict is the order of the lookup
TITLE_TO_NOC ==
    << <<"data scientist", "21211">>, <<"machine learning", "21211">>,
       <<"applied scientist", "21211">>, <<"research scientist", "21211">>,
       <<"ai engineer", "21211">>, <<"ai scientist", "21211">>,
       <<"deep learning", "21211">>, <<"nlp engineer", "21211">>,
       <<"data analyst", "21223">>, <<"business intelligence", "21223">>,
       <<"bi analyst", "21223">>, <<"database", "21223">>,
       <<"analytics engineer", "21223">>,
       <<"product manager", "20012">>,
       <<"technical product manager", "20012">>,
       <<"program manager", "20012">>, <<"it project manager", "20012">>,
       <<"analytics manager", "20012">>,
       <<"business analyst", "21221">>, <<"systems analyst", "21221">>,
       <<"product analyst", "21221">>, <<"ai consultant", "21221">>,
       <<"insights analyst", "21221">>,
       <<"management consultant", "11201">>,
       <<"strategy consultant", "11201">>, <<"consultant", "11201">>,
       <<"cybersecurity", "21220">>, <<"security analyst", "21220">>,
       <<"security engineer", "21220">>, <<"information security", "21220">>,
       <<"soc analyst", "21220">>, <<"threat analyst", "21220">>,
       <<"software engineer", "21231">>, <<"software developer", "21231">>,
       <<"data engineer", "21231">>, <<"ml engineer", "21231">>,
       <<"backend engineer", "21231">>, <<"full stack", "21232">>,
       <<"frontend engineer", "21234">>, <<"web developer", "21234">> >>

\* title.lower() raises AttributeError when title is None
guess_noc_from_title_raises(title) == title = None

\* returns <<noc_code, noc_description>>, <<"", "">> when no keyword matches
guess_noc_from_title(title) ==
    LET title_lower == Strip(Lower(title))
        hit(k) == In(TITLE_TO_NOC[k][1], title_lower)
    IN  IF \E k \in 1..Len(TITLE_TO_NOC) : hit(k)
        THEN LET k == CHOOSE k \in 1..Len(TITLE_TO_NOC) :
                        hit(k) /\ \A j \in 1..(k - 1) : ~hit(j)
                 noc == TITLE_TO_NOC[k][2]
             IN  <<noc, Get(NOC_DESCRIPTIONS, noc, "")>>
        ELSE <<"", "">>

\* variant of is_bcpnp_eligible: the codes of the regular stream count as well
is_bcpnp_any_eligible(noc_code) ==
    noc_code \in BCPNP_TECH_NOCS \cup {"11201"}

is_bcpnp_eligible(noc_code) == noc_code \in BCPNP_TECH_NOCS

BC_INDICATORS ==
    <<"vancouver", "burnaby", "surrey", "richmond", "bc",
      "british columbia", "victoria", "kelowna", "kamloops",
      "nanaimo", "new westminster", "coquitlam", "langley",
      "abbotsford", "north vancouver", "west vancouver">>

check_location_bc(location) ==
    IF location = "" THEN FALSE ELSE AnyIn(BC_INDICATORS, Lower(location))

(***************************************************************************)
(* core/networking.py                                                      *)
(***************************************************************************)
HIGH_CHINESE_PRESENCE ==
    <<"amazon", "microsoft", "google", "meta", "apple", "shopify",
      "huawei", "tencent", "alibaba", "bytedance",
      "rbc", "td", "bmo", "deloitte", "pwc", "ey", "kpmg",
      "sap", "visier", "d-wave", "hootsuite">>

MEDIUM_PRESENCE == <<"telus", "fortinet", "absolute", "bench", "clio">>

\* company.strip() raises AttributeError when company is None
generate_networking_intel_raises(company) == company = None

\* the networking_score entry of the returned dict
generate_networking_intel(company) ==
    LET company_lower == Lower(Strip(company))
    IN  IF AnyIn(HIGH_CHINESE_PRESENCE, company_lower) THEN 10
        ELSE IF AnyIn(MEDIUM_PRESENCE, company_lower) THEN 5
        ELSE 2

(***************************************************************************)
(* Python floats are IEEE-754 binary64.  A binary64 value v                 *)
(* with 2^-8 <= v < 128 (or v = 0) is kept as the integer v * 2^60,        *)
(* written in five base-2^15 digits, least significant first, so that      *)
(* every product and sum below is exact before it is rounded to 53        *)
(* significant bits.                                                       *)
(***************************************************************************)
BASE == 32768

RECURSIVE BigMulFrom(_, _, _, _)
BigMulFrom(a, n, i, carry) ==
    IF i > Len(a) THEN <<>>
    ELSE LET v == a[i] * n + carry
         IN  <<v % BASE>> \o BigMulFrom(a, n, i + 1, v \div BASE)

\* a * n for a small natural n
BigMul(a, n) == BigMulFrom(a, n, 1, 0)

RECURSIVE BigAddFrom(_, _, _, _)
BigAddFrom(a, b, i, carry) ==
    IF i > Len(a) THEN <<>>
    ELSE LET v == a[i] + b[i] + carry
         IN  <<v % BASE>> \o BigAddFrom(a, b, i + 1, v \div BASE)

BigAdd(a, b) == BigAddFrom(a, b, 1, 0)

\* number of significant bits
BigBitLen(a) ==
    IF \A i \in 1..Len(a) : a[i] = 0 THEN 0
    ELSE LET top == CHOOSE i \in 1..Len(a) :
                        a[i] # 0 /\ \A j \in (i + 1)..Len(a) : a[j] = 0
             bits == CHOOSE k \in 1..15 :
                        2^(k - 1) <= a[top] /\ a[top] < 2^k
         IN  15 * (top - 1) + bits

\* round to nearest binary64, ties to even: at most 14 low bits are dropped
F64Round(a) ==
    LET d == BigBitLen(a) - 53
    IN  IF d <= 0 THEN a
        ELSE LET rem == a[1] % 2^d
                 kept == [a EXCEPT ![1] = a[1] - rem]
                 odd == IF d = 15 THEN a[2] % 2 = 1
                        ELSE (a[1] \div 2^d) % 2 = 1
                 up == 2 * rem > 2^d \/ (2 * rem = 2^d /\ odd)
             IN  IF up THEN BigAdd(kept, <<2^d, 0, 0, 0, 0>>) ELSE kept

F64Mul(n, w) == F64Round(BigMul(w, n))
F64Add(a, b) == F64Round(BigAdd(a, b))

\* round(v, 1) in tenths: the integer nearest to 10 * v, ties to even
F64RoundTenths(a) ==
    LET a10 == BigMul(a, 10)
        q == a10[5]
        above == a10[4] > 16384
                 \/ (a10[4] = 16384
                     /\ (a10[3] # 0 \/ a10[2] # 0 \/ a10[1] # 0))
        tie == a10[4] = 16384 /\ a10[3] = 0 /\ a10[2] = 0 /\ a10[1] = 0
    IN  IF above \/ (tie /\ q % 2 = 1) THEN q + 1 ELSE q

RECURSIVE BigDivFrom(_, _, _, _)
\* digits i..1 of a divided by a small natural n, rem carried in from the
\* digits above: <<remainder>> followed by the quotient digits 1..i
BigDivFrom(a, n, i, rem) ==
    IF i = 0 THEN <<rem>>
    ELSE BigDivFrom(a, n, i - 1, (rem * BASE + a[i]) % n)
         \o <<(rem * BASE + a[i]) \div n>>

\* a / n rounded to nearest binary64: the quotient keeps at least two bits
\* below the 53 it is rounded to, a remainder makes its last bit 1
F64Div(a, n) ==
    LET d == BigDivFrom(a, n, Len(a), 0)
        q == Tail(d)
    IN  F64Round(IF d[1] # 0 /\ q[1] % 2 = 0
                 THEN [q EXCEPT ![1] = q[1] + 1] ELSE q)

\* round(v): the integer nearest to v, ties to even
F64RoundInt(a) ==
    LET q == a[5]
        above == a[4] > 16384
                 \/ (a[4] = 16384 /\ (a[3] # 0 \/ a[2] # 0 \/ a[1] # 0))
        tie == a[4] = 16384 /\ a[3] = 0 /\ a[2] = 0 /\ a[1] = 0
    IN  IF above \/ (tie /\ q % 2 = 1) THEN q + 1 ELSE q

(***************************************************************************)
(* Dimension scorers of core/ranker.py                                     *)
(***************************************************************************)
\* the binary64 values of the literals 1.0, 0.7, 0.4, 0.1, times 2^60
SKILL_WEIGHTS_F64 ==
    [strong |-> <<0, 0, 0, 0, 1>>,
     moderate |-> <<13056, 26214, 19660, 22937, 0>>,
     emerging |-> <<26240, 19660, 6553, 13107, 0>>,
     weak |-> <<6560, 13107, 26214, 3276, 0>>]

\* round((strong * 1.0 + moderate * 0.7 + emerging * 0.4 + weak * 0.1)
\*       / total_mentioned * 100), for total_mentioned > 0
skills_score(strong, moderate, emerging, weak) ==
    LET t1 == F64Mul(strong, SKILL_WEIGHTS_F64.strong)
        t2 == F64Add(t1, F64Mul(moderate, SKILL_WEIGHTS_F64.moderate))
        t3 == F64Add(t2, F64Mul(emerging, SKILL_WEIGHTS_F64.emerging))
        t4 == F64Add(t3, F64Mul(weak, SKILL_WEIGHTS_F64.weak))
        ratio == F64Div(t4, strong + moderate + emerging + weak)
    IN  F64RoundInt(F64Round(BigMul(ratio, 100)))

\* variant of score_skills_match: no skill phrase found scores 0
score_skills_match_zero(title, description, skill_sets) ==
    LET job_text == Lower(Str(title) \o " " \o Str(description))
        count(S) == Cardinality({s \in S : In(s, job_text)})
        strong_matches == count(skill_sets.strong)
        moderate_matches == count(skill_sets.moderate)
        emerging_matches == count(skill_sets.emerging)
        weak_matches == count(skill_sets.weak)
        total_mentioned == strong_matches + moderate_matches
                           + emerging_matches + weak_matches
    IN  IF Strip(job_text) = "" THEN 50
        ELSE IF total_mentioned = 0 THEN 0
        ELSE Clamp(skills_score(strong_matches, moderate_matches,
                                emerging_matches, weak_matches))

\* skill_sets is a record of four sets of skill phrases
score_skills_match(title, description, skill_sets) ==
    LET job_text == Lower(Str(title) \o " " \o Str(description))
        count(S) == Cardinality({s \in S : In(s, job_text)})
        strong_matches == count(skill_sets.strong)
        moderate_matches == count(skill_sets.moderate)
        emerging_matches == count(skill_sets.emerging)
        weak_matches == count(skill_sets.weak)
        total_mentioned == strong_matches + moderate_matches
                           + emerging_matches + weak_matches
    IN  IF Strip(job_text) = "" THEN 50
        ELSE IF total_mentioned = 0 THEN 50
        ELSE Clamp(skills_score(strong_matches, moderate_matches,
                                emerging_matches, weak_matches))

PRIORITY_TITLES ==
    <<"data scientist", "machine learning", "ml engineer",
      "cybersecurity", "security analyst", "security engineer",
      "software engineer", "software developer",
      "data analyst", "data engineer", "analytics",
      "ai", "artificial intelligence",
      "product manager", "business analyst", "consultant">>

\* variant of score_immigration_fit: 10 for every priority phrase of the title
score_immigration_fit_per_phrase(title, description, location, job_type, noc_code) ==
    LET title_lower == Lower(OrEmpty(title))
        desc_lower == Lower(OrEmpty(description))
        jtype_lower == Lower(OrEmpty(job_type))
        noc == IF OrEmpty(noc_code) # "" /\ noc_code \in BCPNP_TECH_NOCS
               THEN 30 ELSE 0
        ptitle == 10 * Cardinality({k \in 1..Len(PRIORITY_TITLES) :
                                       In(PRIORITY_TITLES[k], title_lower)})
        place == OrEmpty(location)
        loc == IF check_location_bc(place) THEN 10
               ELSE IF place # "" /\ In("remote", Lower(place)) THEN 5
               ELSE IF place # "" /\ In("canada", Lower(place)) THEN 3
               ELSE 0
        jtype == IF In("full", jtype_lower) \/ In("permanent", jtype_lower)
                 THEN 5
                 ELSE IF In("contract", jtype_lower)
                          \/ In("temporary", jtype_lower)
                 THEN -15
                 ELSE 0
        desc == IF In("permanent", desc_lower) \/ In("full-time", desc_lower)
                THEN 5 ELSE 0
        level == IF /\ In("senior", title_lower)
                    /\ ~In("staff", title_lower)
                    /\ ~In("principal", title_lower)
                 THEN 5
                 ELSE IF In("lead", title_lower) THEN 3
                 ELSE IF In("junior", title_lower) \/ In("entry", title_lower)
                 THEN -5
                 ELSE 0
    IN  Clamp(50 + noc + ptitle + loc + jtype + desc + level)

score_immigration_fit(title, description, location, job_type, noc_code) ==
    LET title_lower == Lower(OrEmpty(title))
        desc_lower == Lower(OrEmpty(description))
        jtype_lower == Lower(OrEmpty(job_type))
        noc == IF OrEmpty(noc_code) # "" /\ noc_code \in BCPNP_TECH_NOCS
               THEN 30 ELSE 0
        ptitle == IF AnyIn(PRIORITY_TITLES, title_lower) THEN 10 ELSE 0
        place == OrEmpty(location)
        loc == IF check_location_bc(place) THEN 10
               ELSE IF place # "" /\ In("remote", Lower(place)) THEN 5
               ELSE IF place # "" /\ In("canada", Lower(place)) THEN 3
               ELSE 0
        jtype == IF In("full", jtype_lower) \/ In("permanent", jtype_lower)
                 THEN 5
                 ELSE IF In("contract", jtype_lower)
                          \/ In("temporary", jtype_lower)
                 THEN -15
                 ELSE 0
        desc == IF In("permanent", desc_lower) \/ In("full-time", desc_lower)
                THEN 5 ELSE 0
        level == IF /\ In("senior", title_lower)
                    /\ ~In("staff", title_lower)
                    /\ ~In("principal", title_lower)
                 THEN 5
                 ELSE IF In("lead", title_lower) THEN 3
                 ELSE IF In("junior", title_lower) \/ In("entry", title_lower)
                 THEN -5
                 ELSE 0
    IN  Clamp(50 + noc + ptitle + loc + jtype + desc + level)

\* Salary figures are kept doubled, so that the midpoint
\* (salary_min + salary_max) / 2 stays an integer.
pick_salary2(salary_min, salary_max) ==
    IF salary_min # 0 /\ salary_max # 0 THEN salary_min + salary_max
    ELSE IF salary_max # 0 THEN 2 * salary_max
    ELSE 2 * salary_min

annualize(salary, interval) ==
    LET ivl == Lower(OrEmpty(interval))
    IN  IF In("hour", ivl) THEN salary * 2080
        ELSE IF In("month", ivl) THEN salary * 12
        ELSE salary

\* variant of score_salary: the thresholds are compared with > instead of >=
score_salary_strict(salary_min, salary_max, interval) ==
    IF salary_min = 0 /\ salary_max = 0 THEN 50
    ELSE LET salary2 == annualize(pick_salary2(salary_min, salary_max),
                                  interval)
         IN  IF salary2 > 2 * 145000 THEN 100
             ELSE IF salary2 > 2 * 120000 THEN 90
             ELSE IF salary2 > 2 * 100000 THEN 80
             ELSE IF salary2 > 2 * 85000 THEN 65
             ELSE IF salary2 > 2 * 70000 THEN 50
             ELSE IF salary2 > 2 * 55000 THEN 30
             ELSE 15

score_salary(salary_min, salary_max, interval) ==
    IF salary_min = 0 /\ salary_max = 0 THEN 50
    ELSE LET salary2 == annualize(pick_salary2(salary_min, salary_max),
                                  interval)
         IN  IF salary2 >= 2 * 145000 THEN 100
             ELSE IF salary2 >= 2 * 120000 THEN 90
             ELSE IF salary2 >= 2 * 100000 THEN 80
             ELSE IF salary2 >= 2 * 85000 THEN 65
             ELSE IF salary2 >= 2 * 70000 THEN 50
             ELSE IF salary2 >= 2 * 55000 THEN 30
             ELSE 15

\* core/immigration.py: salary_to_annual
salary_to_annual(salary, interval) ==
    IF salary = 0 \/ interval = "" THEN 0
    ELSE LET interval_lower == Lower(interval)
         IN  IF In("hour", interval_lower) THEN salary * 2080
             ELSE IF In("month", interval_lower) THEN salary * 12
             ELSE IF In("week", interval_lower) THEN salary * 52
             ELSE salary

\* variant of score_company: the tier-2 list is consulted before the tier-1 list
score_company_tier2_first(company, description) ==
    LET company_lower == Strip(Lower(OrEmpty(company)))
        desc_lower == Lower(OrEmpty(description))
        either(names) == \E k \in 1..Len(names) :
                            In(names[k], company_lower)
                            \/ In(company_lower, names[k])
    IN  IF company_lower = "" THEN 50
        ELSE IF either(COMPANY_TIERS.tier2) THEN 75
        ELSE IF either(COMPANY_TIERS.tier1) THEN 90
        ELSE IF AnyIn(<<"fortune 500", "global", "enterprise",
                        "publicly traded">>, desc_lower) THEN 80
        ELSE IF AnyIn(<<"series b", "series c", "series d",
                        "well-funded">>, desc_lower) THEN 70
        ELSE IF AnyIn(<<"startup", "early stage", "seed",
                        "series a">>, desc_lower) THEN 55
        ELSE 60

score_company(company, description) ==
    LET company_lower == Strip(Lower(OrEmpty(company)))
        desc_lower == Lower(OrEmpty(description))
        either(names) == \E k \in 1..Len(names) :
                            In(names[k], company_lower)
                            \/ In(company_lower, names[k])
    IN  IF company_lower = "" THEN 50
        ELSE IF either(COMPANY_TIERS.tier1) THEN 90
        ELSE IF either(COMPANY_TIERS.tier2) THEN 75
        ELSE IF AnyIn(<<"fortune 500", "global", "enterprise",
                        "publicly traded">>, desc_lower) THEN 80
        ELSE IF AnyIn(<<"series b", "series c", "series d",
                        "well-funded">>, desc_lower) THEN 70
        ELSE IF AnyIn(<<"startup", "early stage", "seed",
                        "series a">>, desc_lower) THEN 55
        ELSE 60

(***************************************************************************)
(* Explanation maps.  An entry of the code is a formatted string such as   *)
(* "+35 ('consultant' roles rarely have live coding)"; it is kept here as  *)
(* the delta it starts with and the keyword it quotes ("" when it quotes   *)
(* none).                                                                  *)
(***************************************************************************)
NoDetails == [k \in {} |-> 0]
Entry(cond, key, delta, note) ==
    IF cond THEN (key :> [delta |-> delta, note |-> note]) ELSE NoDetails

NO_CODING_ROLES ==
    <<"product manager", "program manager", "project manager",
      "management consultant", "strategy consultant", "consultant",
      "business analyst",
      "analytics manager", "analytics lead", "analytics director",
      "data strategy", "data governance",
      "operations analyst", "operations manager",
      "marketing analyst",
      "insights analyst", "insights manager",
      "chief", "coo", "cto", "vp ">>

\* variant of HEAVY_CODING_ROLES: data scientist counts as a heavy-coding role
HEAVY_CODING_ROLES_WITH_SCIENTIST ==
    <<"machine learning engineer", "ml engineer", "mle",
      "data engineer", "software engineer", "backend engineer",
      "full stack", "frontend engineer",
      "applied scientist",
      "research engineer", "data scientist">>

HEAVY_CODING_ROLES ==
    <<"machine learning engineer", "ml engineer", "mle",
      "data engineer", "software engineer", "backend engineer",
      "full stack", "frontend engineer",
      "applied scientist",
      "research engineer">>

MIXED_ROLES ==
    <<"data scientist", "data analyst", "product analyst",
      "research scientist", "quantitative analyst",
      "bi analyst", "business intelligence">>

NON_TECH_KEYWORDS ==
    <<"healthcare", "hospital", "clinic", "pharma",
      "government", "public sector", "crown corporation",
      "insurance", "credit union", "bank",
      "retail", "fashion", "apparel",
      "real estate", "construction",
      "transportation", "transit", "logistics",
      "energy", "mining", "forestry",
      "nonprofit", "non-profit", "ngo",
      "university", "college", "education">>

\* variant of score_interview_format: a heavy-coding role and a take-home
\* company are counted although an earlier list matched already
score_interview_format_accumulating(j) ==
    LET title == Lower(OrEmpty(Get(j, "title", None)))
        company == Lower(OrEmpty(Get(j, "company", None)))
        description == Lower(OrEmpty(Get(j, "description", None)))
        nc == FirstIn(NO_CODING_ROLES, title)
        hc == IF nc = 0 THEN FirstIn(HEAVY_CODING_ROLES, title) ELSE 0
        mx == IF nc = 0 /\ hc = 0 THEN FirstIn(MIXED_ROLES, title) ELSE 0
        role == IF nc # 0
                THEN Entry(TRUE, "role_type", 35, NO_CODING_ROLES[nc])
                ELSE IF hc # 0
                THEN Entry(TRUE, "role_type", -30, HEAVY_CODING_ROLES[hc])
                ELSE IF mx # 0
                THEN Entry(TRUE, "role_type", 0, MIXED_ROLES[mx])
                ELSE NoDetails
        lc == FirstIn(LIVE_CODING_COMPANIES, company)
        th == IF lc = 0 THEN FirstIn(TAKEHOME_COMPANIES, company) ELSE 0
        comp == IF lc # 0
                THEN Entry(TRUE, "company_format", -20,
                           LIVE_CODING_COMPANIES[lc])
                ELSE IF th # 0
                THEN Entry(TRUE, "company_format", 15, TAKEHOME_COMPANIES[th])
                ELSE NoDetails
        positive == Entry(AnyIn(<<"case study", "take-home", "take home",
                                  "presentation", "case presentation">>,
                                description),
                          "jd_format_positive", 15, "")
        business == Entry(AnyIn(<<"stakeholder", "cross-functional",
                                  "executive", "business partner",
                                  "strategic thinking">>, description),
                          "jd_business_focus", 10, "")
        bi == Entry(AnyIn(<<"tableau", "power bi", "looker", "dashboard",
                            "visualization", "reporting">>, description),
                    "jd_bi_focus", 8, "")
        coding == Entry(AnyIn(<<"leetcode", "hackerrank", "coderpad",
                                "coding challenge", "coding assessment",
                                "live coding", "technical screen",
                                "whiteboard">>, description),
                        "jd_coding_signal", -25, "")
        engineering == Entry(AnyIn(<<"system design", "design a system",
                                     "production code", "code review",
                                     "write efficient", "optimize query">>,
                                   description),
                             "jd_engineering_signal", -15, "")
        strong == Entry(In("strong programming", description)
                        \/ In("expert in python", description),
                        "jd_strong_coding", -10, "")
        hit(k) == In(NON_TECH_KEYWORDS[k], description)
                  \/ In(NON_TECH_KEYWORDS[k], company)
        ind == IF \E k \in 1..Len(NON_TECH_KEYWORDS) : hit(k)
               THEN CHOOSE k \in 1..Len(NON_TECH_KEYWORDS) :
                        hit(k) /\ \A i \in 1..(k - 1) : ~hit(i)
               ELSE 0
        industry == IF ind # 0
                    THEN Entry(TRUE, "industry", 10, NON_TECH_KEYWORDS[ind])
                    ELSE NoDetails
        details == role @@ comp @@ positive @@ business @@ bi @@ coding
                   @@ engineering @@ strong @@ industry
        delta(d) == IF d = NoDetails THEN 0
                    ELSE d[CHOOSE k \in DOMAIN d : TRUE].delta
        score == 50 + delta(role) + delta(comp) + delta(positive)
                 + delta(business) + delta(bi) + delta(coding)
                 + delta(engineering) + delta(strong) + delta(industry)
                 + (IF nc # 0 /\ AnyIn(HEAVY_CODING_ROLES, title)
                    THEN -30 ELSE 0)
                 + (IF lc # 0 /\ AnyIn(TAKEHOME_COMPANIES, company)
                    THEN 15 ELSE 0)
    IN  [score |-> Max(0, Min(100, score)), details |-> details]

\* returns [score, details]
score_interview_format(j) ==
    LET title == Lower(OrEmpty(Get(j, "title", None)))
        company == Lower(OrEmpty(Get(j, "company", None)))
        description == Lower(OrEmpty(Get(j, "description", None)))
        nc == FirstIn(NO_CODING_ROLES, title)
        hc == IF nc = 0 THEN FirstIn(HEAVY_CODING_ROLES, title) ELSE 0
        mx == IF nc = 0 /\ hc = 0 THEN FirstIn(MIXED_ROLES, title) ELSE 0
        role == IF nc # 0
                THEN Entry(TRUE, "role_type", 35, NO_CODING_ROLES[nc])
                ELSE IF hc # 0
                THEN Entry(TRUE, "role_type", -30, HEAVY_CODING_ROLES[hc])
                ELSE IF mx # 0
                THEN Entry(TRUE, "role_type", 0, MIXED_ROLES[mx])
                ELSE NoDetails
        lc == FirstIn(LIVE_CODING_COMPANIES, company)
        th == IF lc = 0 THEN FirstIn(TAKEHOME_COMPANIES, company) ELSE 0
        comp == IF lc # 0
                THEN Entry(TRUE, "company_format", -20,
                           LIVE_CODING_COMPANIES[lc])
                ELSE IF th # 0
                THEN Entry(TRUE, "company_format", 15, TAKEHOME_COMPANIES[th])
                ELSE NoDetails
        positive == Entry(AnyIn(<<"case study", "take-home", "take home",
                                  "presentation", "case presentation">>,
                                description),
                          "jd_format_positive", 15, "")
        business == Entry(AnyIn(<<"stakeholder", "cross-functional",
                                  "executive", "business partner",
                                  "strategic thinking">>, description),
                          "jd_business_focus", 10, "")
        bi == Entry(AnyIn(<<"tableau", "power bi", "looker", "dashboard",
                            "visualization", "reporting">>, description),
                    "jd_bi_focus", 8, "")
        coding == Entry(AnyIn(<<"leetcode", "hackerrank", "coderpad",
                                "coding challenge", "coding assessment",
                                "live coding", "technical screen",
                                "whiteboard">>, description),
                        "jd_coding_signal", -25, "")
        engineering == Entry(AnyIn(<<"system design", "design a system",
                                     "production code", "code review",
                                     "write efficient", "optimize query">>,
                                   description),
                             "jd_engineering_signal", -15, "")
        strong == Entry(In("strong programming", description)
                        \/ In("expert in python", description),
                        "jd_strong_coding", -10, "")
        hit(k) == In(NON_TECH_KEYWORDS[k], description)
                  \/ In(NON_TECH_KEYWORDS[k], company)
        ind == IF \E k \in 1..Len(NON_TECH_KEYWORDS) : hit(k)
               THEN CHOOSE k \in 1..Len(NON_TECH_KEYWORDS) :
                        hit(k) /\ \A i \in 1..(k - 1) : ~hit(i)
               ELSE 0
        industry == IF ind # 0
                    THEN Entry(TRUE, "industry", 10, NON_TECH_KEYWORDS[ind])
                    ELSE NoDetails
        details == role @@ comp @@ positive @@ business @@ bi @@ coding
                   @@ engineering @@ strong @@ industry
        delta(d) == IF d = NoDetails THEN 0
                    ELSE d[CHOOSE k \in DOMAIN d : TRUE].delta
        score == 50 + delta(role) + delta(comp) + delta(positive)
                 + delta(business) + delta(bi) + delta(coding)
                 + delta(engineering) + delta(strong) + delta(industry)
    IN  [score |-> Max(0, Min(100, score)), details |-> details]

\* variant of calculate_success_score: the remote-location value is added to
\* the value of an earlier outsider branch
calculate_success_score_accumulating(j) ==
    LET title == Lower(OrEmpty(Get(j, "title", None)))
        description == Lower(OrEmpty(Get(j, "description", None)))
        company == Lower(OrEmpty(Get(j, "company", None)))
        location == Lower(OrEmpty(Get(j, "location", None)))
        experience ==
            IF AnyIn(<<"senior", "sr.", "sr ">>, title) THEN 5
            ELSE IF AnyIn(<<"lead", "principal", "staff", "head",
                            "director">>, title) THEN -5
            ELSE IF AnyIn(<<"junior", "jr.", "associate", "entry">>, title)
            THEN 10
            ELSE 15
        canadian_penalty ==
            IF In("canadian experience", description)
               \/ In("local experience", description) THEN -25
            ELSE IF In("international", description)
                    /\ (In("welcome", description)
                        \/ In("valued", description)) THEN -5
            ELSE IF AnyIn(<<"global", "cross-border", "multinational",
                            "multilingual">>, description) THEN -8
            ELSE IF In("remote", location) THEN -10
            ELSE -15
        friendly == AnyIn(IMMIGRANT_FRIENDLY_COMPANIES, company)
        diversity == AnyIn(<<"diversity", "equity", "inclusion", "dei",
                             "equal opportunity", "diverse backgrounds",
                             "underrepresented", "belong">>, description)
        visa == In("visa sponsorship", description)
                \/ In("work permit", description)
        refused == In("no visa", description)
                   \/ In("no sponsorship", description)
                   \/ In("not sponsor", description)
        visa_delta == IF refused THEN -10 ELSE 5
        openness_bonus == (IF friendly THEN 10 ELSE 0)
                          + (IF diversity THEN 5 ELSE 0)
                          + (IF visa THEN visa_delta ELSE 0)
        competition ==
            IF AnyIn(TIER1_COMPANIES, company)
            THEN IF In("senior", title) \/ In("lead", title) THEN -15 ELSE -8
            ELSE IF AnyIn(SMALL_COMPANIES_OR_STARTUPS, company) THEN -3
            ELSE -5
        n_cyber == In("cybersecurity", title)
                   /\ (In("data", title) \/ In("ml", title)
                       \/ In("machine learning", description))
        n_china == AnyIn(<<"chinese market", "china", "apac", "asia pacific",
                           "mandarin">>, description)
        n_quant == In("quantitative", title) \/ In("quant", title)
        n_insurance == AnyIn(<<"insurance", "insurtech">>, description)
        n_gnn == AnyIn(<<"graph neural", "gnn", "knowledge graph">>,
                       description)
        n_consulting == In("consulting", title) \/ In("consultant", title)
        niche_bonus == (IF n_cyber THEN 10 ELSE 0)
                       + (IF n_china THEN 10 ELSE 0)
                       + (IF n_quant THEN 8 ELSE 0)
                       + (IF n_insurance THEN 8 ELSE 0)
                       + (IF n_gnn THEN 10 ELSE 0)
                       + (IF n_consulting THEN 8 ELSE 0)
        networking_bonus ==
            Min(15, generate_networking_intel(Get(j, "company", "")))
        details ==
            Entry(TRUE, "experience_match", experience, "")
            @@ Entry(TRUE, "canadian_exp", canadian_penalty, "")
            @@ Entry(friendly, "company_openness", 10, "")
            @@ Entry(diversity, "diversity_signal", 5, "")
            @@ Entry(visa, "visa_signal", visa_delta, "")
            @@ Entry(TRUE, "competition", competition, "")
            @@ Entry(n_cyber, "niche", 10, "")
            @@ Entry(n_china, "niche_china", 10, "")
            @@ Entry(n_quant, "niche_quant", 8, "")
            @@ Entry(n_insurance, "niche_insurance", 8, "")
            @@ Entry(n_gnn, "niche_gnn", 10, "")
            @@ Entry(n_consulting, "niche_consulting", 8, "")
            @@ Entry(TRUE, "networking", networking_bonus, "")
        score == 40 + experience + canadian_penalty + openness_bonus
                 + competition + niche_bonus + networking_bonus
                 + (IF canadian_penalty # -10 /\ In("remote", location)
                    THEN -10 ELSE 0)
    IN  [score |-> Max(0, Min(100, score)), details |-> details]

\* returns [score, details]
calculate_success_score(j) ==
    LET title == Lower(OrEmpty(Get(j, "title", None)))
        description == Lower(OrEmpty(Get(j, "description", None)))
        company == Lower(OrEmpty(Get(j, "company", None)))
        location == Lower(OrEmpty(Get(j, "location", None)))
        experience ==
            IF AnyIn(<<"senior", "sr.", "sr ">>, title) THEN 5
            ELSE IF AnyIn(<<"lead", "principal", "staff", "head",
                            "director">>, title) THEN -5
            ELSE IF AnyIn(<<"junior", "jr.", "associate", "entry">>, title)
            THEN 10
            ELSE 15
        canadian_penalty ==
            IF In("canadian experience", description)
               \/ In("local experience", description) THEN -25
            ELSE IF In("international", description)
                    /\ (In("welcome", description)
                        \/ In("valued", description)) THEN -5
            ELSE IF AnyIn(<<"global", "cross-border", "multinational",
                            "multilingual">>, description) THEN -8
            ELSE IF In("remote", location) THEN -10
            ELSE -15
        friendly == AnyIn(IMMIGRANT_FRIENDLY_COMPANIES, company)
        diversity == AnyIn(<<"diversity", "equity", "inclusion", "dei",
                             "equal opportunity", "diverse backgrounds",
                             "underrepresented", "belong">>, description)
        visa == In("visa sponsorship", description)
                \/ In("work permit", description)
        refused == In("no visa", description)
                   \/ In("no sponsorship", description)
                   \/ In("not sponsor", description)
        visa_delta == IF refused THEN -10 ELSE 5
        openness_bonus == (IF friendly THEN 10 ELSE 0)
                          + (IF diversity THEN 5 ELSE 0)
                          + (IF visa THEN visa_delta ELSE 0)
        competition ==
            IF AnyIn(TIER1_COMPANIES, company)
            THEN IF In("senior", title) \/ In("lead", title) THEN -15 ELSE -8
            ELSE IF AnyIn(SMALL_COMPANIES_OR_STARTUPS, company) THEN -3
            ELSE -5
        n_cyber == In("cybersecurity", title)
                   /\ (In("data", title) \/ In("ml", title)
                       \/ In("machine learning", description))
        n_china == AnyIn(<<"chinese market", "china", "apac", "asia pacific",
                           "mandarin">>, description)
        n_quant == In("quantitative", title) \/ In("quant", title)
        n_insurance == AnyIn(<<"insurance", "insurtech">>, description)
        n_gnn == AnyIn(<<"graph neural", "gnn", "knowledge graph">>,
                       description)
        n_consulting == In("consulting", title) \/ In("consultant", title)
        niche_bonus == (IF n_cyber THEN 10 ELSE 0)
                       + (IF n_china THEN 10 ELSE 0)
                       + (IF n_quant THEN 8 ELSE 0)
                       + (IF n_insurance THEN 8 ELSE 0)
                       + (IF n_gnn THEN 10 ELSE 0)
                       + (IF n_consulting THEN 8 ELSE 0)
        networking_bonus ==
            Min(15, generate_networking_intel(Get(j, "company", "")))
        details ==
            Entry(TRUE, "experience_match", experience, "")
            @@ Entry(TRUE, "canadian_exp", canadian_penalty, "")
            @@ Entry(friendly, "company_openness", 10, "")
            @@ Entry(diversity, "diversity_signal", 5, "")
            @@ Entry(visa, "visa_signal", visa_delta, "")
            @@ Entry(TRUE, "competition", competition, "")
            @@ Entry(n_cyber, "niche", 10, "")
            @@ Entry(n_china, "niche_china", 10, "")
            @@ Entry(n_quant, "niche_quant", 8, "")
            @@ Entry(n_insurance, "niche_insurance", 8, "")
            @@ Entry(n_gnn, "niche_gnn", 10, "")
            @@ Entry(n_consulting, "niche_consulting", 8, "")
            @@ Entry(TRUE, "networking", networking_bonus, "")
        score == 40 + experience + canadian_penalty + openness_bonus
                 + competition + niche_bonus + networking_bonus
    IN  [score |-> Max(0, Min(100, score)), details |-> details]

(***************************************************************************)
(* Tier classifier                                                         *)
(***************************************************************************)
ENGINEERING_ROLES ==
    <<"data engineer", "software engineer", "ml engineer",
      "machine learning engineer", "backend", "frontend",
      "platform engineer", "devops">>

stretch_signals(j, scores) ==
    LET interview_score == Get(scores, "score_interview", 50)
        title == Lower(OrEmpty(Get(j, "title", None)))
        description == Lower(OrEmpty(Get(j, "description", None)))
        company == Lower(OrEmpty(Get(j, "company", None)))
    IN  (IF interview_score < 70 /\ interview_score < 45 THEN 1 ELSE 0)
        + (IF AnyIn(<<"senior", "staff", "principal", "lead", "head">>, title)
           THEN 1 ELSE 0)
        + (IF AnyIn(TIER1_COMPANIES, company) THEN 1 ELSE 0)
        + (IF In("canadian experience", description) THEN 2 ELSE 0)

\* variant of quickwin_signals: a remote location counts as a signal
quickwin_signals_remote(j, scores) ==
    LET interview_score == Get(scores, "score_interview", 50)
        title == Lower(OrEmpty(Get(j, "title", None)))
        company == Lower(OrEmpty(Get(j, "company", None)))
        job_type == Lower(OrEmpty(Get(j, "job_type", None)))
        location == Lower(OrEmpty(Get(j, "location", None)))
    IN  (IF interview_score >= 70 THEN 1 ELSE 0)
        + (IF AnyIn(<<"junior", "associate", "entry">>, title) THEN 1 ELSE 0)
        + (IF In("contract", job_type) THEN 1 ELSE 0)
        + (IF In("remote", location) THEN 1 ELSE 0)
        + (IF AnyIn(<<"product manager", "consultant", "business analyst">>,
                    title) THEN 1 ELSE 0)
        + (IF AnyIn(SMALL_COMPANIES_OR_STARTUPS, company) THEN 1 ELSE 0)
        + (IF AnyIn(<<"cybersecurity", "insurance", "quant">>, title)
           THEN 1 ELSE 0)

quickwin_signals(j, scores) ==
    LET interview_score == Get(scores, "score_interview", 50)
        title == Lower(OrEmpty(Get(j, "title", None)))
        company == Lower(OrEmpty(Get(j, "company", None)))
        job_type == Lower(OrEmpty(Get(j, "job_type", None)))
    IN  (IF interview_score >= 70 THEN 1 ELSE 0)
        + (IF AnyIn(<<"junior", "associate", "entry">>, title) THEN 1 ELSE 0)
        + (IF In("contract", job_type) THEN 1 ELSE 0)
        + (IF AnyIn(<<"product manager", "consultant", "business analyst">>,
                    title) THEN 1 ELSE 0)
        + (IF AnyIn(SMALL_COMPANIES_OR_STARTUPS, company) THEN 1 ELSE 0)
        + (IF AnyIn(<<"cybersecurity", "insurance", "quant">>, title)
           THEN 1 ELSE 0)

\* variant of assign_tier: the interview override is tested after the
\* quick-win count
assign_tier_late_override(j, scores) ==
    LET interview_score == Get(scores, "score_interview", 50)
        success_score == Get(scores, "score_success", 50)
        title == Lower(OrEmpty(Get(j, "title", None)))
    IN  IF AnyIn(ENGINEERING_ROLES, title) THEN "A"
        ELSE IF stretch_signals(j, scores) >= 2
                /\ quickwin_signals(j, scores) < 2 THEN "A"
        ELSE IF quickwin_signals(j, scores) >= 2 \/ success_score >= 60
        THEN "C"
        ELSE IF interview_score < 30 THEN "A"
        ELSE "B"

\* variant of assign_tier: no engineering-role override
assign_tier_no_engineering(j, scores) ==
    LET interview_score == Get(scores, "score_interview", 50)
        success_score == Get(scores, "score_success", 50)
    IN  IF interview_score < 30 THEN "A"
        ELSE IF stretch_signals(j, scores) >= 2
                /\ quickwin_signals(j, scores) < 2 THEN "A"
        ELSE IF quickwin_signals(j, scores) >= 2 \/ success_score >= 60
        THEN "C"
        ELSE "B"

\* variant of assign_tier: success score compared with > 60
assign_tier_success_strict(j, scores) ==
    LET interview_score == Get(scores, "score_interview", 50)
        success_score == Get(scores, "score_success", 50)
        title == Lower(OrEmpty(Get(j, "title", None)))
    IN  IF interview_score < 30 THEN "A"
        ELSE IF AnyIn(ENGINEERING_ROLES, title) THEN "A"
        ELSE IF stretch_signals(j, scores) >= 2
                /\ quickwin_signals(j, scores) < 2 THEN "A"
        ELSE IF quickwin_signals(j, scores) >= 2 \/ success_score > 60
        THEN "C"
        ELSE "B"

assign_tier(j, scores) ==
    LET interview_score == Get(scores, "score_interview", 50)
        success_score == Get(scores, "score_success", 50)
        title == Lower(OrEmpty(Get(j, "title", None)))
    IN  IF interview_score < 30 THEN "A"
        ELSE IF AnyIn(ENGINEERING_ROLES, title) THEN "A"
        ELSE IF stretch_signals(j, scores) >= 2
                /\ quickwin_signals(j, scores) < 2 THEN "A"
        ELSE IF quickwin_signals(j, scores) >= 2 \/ success_score >= 60
        THEN "C"
        ELSE "B"

(***************************************************************************)
(* Composite scorer: rank_job                                              *)
(***************************************************************************)
\* the binary64 values of the literals 0.30, 0.25, 0.15, 0.10, times 2^60
WEIGHTS_F64 ==
    [skills_match |-> <<19648, 6553, 13107, 9830, 0>>,
     immigration_fit |-> <<0, 0, 0, 8192, 0>>,
     interview_format |-> <<26208, 19660, 6553, 4915, 0>>,
     salary_score |-> <<6560, 13107, 26214, 3276, 0>>,
     company_score |-> <<6560, 13107, 26214, 3276, 0>>,
     success_probability |-> <<6560, 13107, 26214, 3276, 0>>]

\* variant of weighted_total: the sum is cut to one decimal, not rounded
weighted_total_cut(s_skills, s_immigration, s_interview, s_salary, s_company, s_success) ==
    LET t1 == F64Mul(s_skills, WEIGHTS_F64.skills_match)
        t2 == F64Add(t1, F64Mul(s_immigration, WEIGHTS_F64.immigration_fit))
        t3 == F64Add(t2, F64Mul(s_interview, WEIGHTS_F64.interview_format))
        t4 == F64Add(t3, F64Mul(s_salary, WEIGHTS_F64.salary_score))
        t5 == F64Add(t4, F64Mul(s_company, WEIGHTS_F64.company_score))
        t6 == F64Add(t5, F64Mul(s_success, WEIGHTS_F64.success_probability))
    IN  BigMul(t6, 10)[5]

\* round(s_skills * 0.30 + ... + s_success * 0.10, 1), in tenths
weighted_total(s_skills, s_immigration, s_interview, s_salary, s_company, s_success) ==
    LET t1 == F64Mul(s_skills, WEIGHTS_F64.skills_match)
        t2 == F64Add(t1, F64Mul(s_immigration, WEIGHTS_F64.immigration_fit))
        t3 == F64Add(t2, F64Mul(s_interview, WEIGHTS_F64.interview_format))
        t4 == F64Add(t3, F64Mul(s_salary, WEIGHTS_F64.salary_score))
        t5 == F64Add(t4, F64Mul(s_company, WEIGHTS_F64.company_score))
        t6 == F64Add(t5, F64Mul(s_success, WEIGHTS_F64.success_probability))
    IN  F64RoundTenths(t6)

priority_label(total) ==
    IF total >= 750 THEN "HIGH"
    ELSE IF total >= 550 THEN "MEDIUM"
    ELSE "LOW"

\* <<noc_code, noc_description>>: the stored code when the dict has one,
\* else the code guessed from the title
\* variant of resolve_noc: the stored pair is returned in the wrong order
resolve_noc_swapped(j) ==
    LET noc_code == Get(j, "noc_code", "")
        noc_desc == Get(j, "noc_description", "")
    IN  IF OrEmpty(noc_code) = ""
        THEN guess_noc_from_title(Get(j, "title", ""))
        ELSE <<noc_desc, noc_code>>

resolve_noc(j) ==
    LET noc_code == Get(j, "noc_code", "")
        noc_desc == Get(j, "noc_description", "")
    IN  IF OrEmpty(noc_code) = ""
        THEN guess_noc_from_title(Get(j, "title", ""))
        ELSE <<noc_code, noc_desc>>

\* calculate_success_score raises when its networking lookup does
calculate_success_score_raises(j) ==
    generate_networking_intel_raises(Get(j, "company", ""))

\* rank_job raises AttributeError, before job.update is reached, when one of
\* the calls it makes does
rank_job_raises(j) ==
    \/ /\ OrEmpty(Get(j, "noc_code", "")) = ""
       /\ guess_noc_from_title_raises(Get(j, "title", ""))
    \/ calculate_success_score_raises(j)
    \/ generate_networking_intel_raises(Get(j, "company", ""))

\* the dict rank_job returns, which is the dict it was given, updated
rank_job(j, skill_sets) ==
    LET title == Get(j, "title", "")
        description == Get(j, "description", "")
        company == Get(j, "company", "")
        location == Get(j, "location", "")
        job_type == Get(j, "job_type", "")
        salary_min == Get(j, "salary_min", 0)
        salary_max == Get(j, "salary_max", 0)
        salary_interval == Get(j, "salary_interval", "yearly")
        noc == resolve_noc(j)
        noc_code == noc[1]
        noc_desc == noc[2]
        s_skills == score_skills_match(title, description, skill_sets)
        s_immigration == score_immigration_fit(title, description, location,
                                               job_type, noc_code)
        s_salary == score_salary(salary_min, salary_max, salary_interval)
        s_company == score_company(company, description)
        interview == score_interview_format(j)
        success == calculate_success_score(j)
        networking_score == generate_networking_intel(company)
        total == weighted_total(s_skills, s_immigration, interview.score,
                                s_salary, s_company, success.score)
        scores_dict == [score_skills |-> s_skills,
                        score_success |-> success.score,
                        score_interview |-> interview.score,
                        score_total |-> total]
        tier == assign_tier(j, scores_dict)
    IN  Update(j, [score_skills |-> s_skills,
                   score_immigration |-> s_immigration,
                   score_salary |-> s_salary,
                   score_company |-> s_company,
                   score_success |-> success.score,
                   score_interview |-> interview.score,
                   score_total |-> total,
                   priority |-> priority_label(total),
                   noc_code |-> noc_code,
                   noc_description |-> noc_desc,
                   bcpnp_eligible |-> IF is_bcpnp_eligible(noc_code)
                                      THEN 1 ELSE 0,
                   tier |-> tier,
                   networking_score |-> networking_score,
                   networking_notes |-> Strip(company),
                   success_details |-> success.details,
                   interview_format_details |-> interview.details])

(***************************************************************************)
(* core/ats_scorer.py: clean_text                                          *)
(***************************************************************************)
DIGITS == {"0", "1", "2", "3", "4", "5", "6", "7", "8", "9"}

UPPER == DOMAIN LOWER_OF

LOWER == {LOWER_OF[c] : c \in UPPER}

\* \w of a str pattern: letters, digits and the underscore
IsWord(c) == c \in UPPER \cup LOWER \cup DIGITS \cup {"_"}

\* the characters the class [^\w\s/\-\+\.] leaves alone
IsKept(c) == IsWord(c) \/ IsSpace(c) \/ c \in {"/", "-", "+", "."}

\* re.sub(r'[^\w\s/\-\+\.]', ' ', s)
RECURSIVE SubOthers(_, _)
SubOthers(s, i) ==
    IF i > Len(s) THEN ""
    ELSE (IF IsKept(Ch(s, i)) THEN Ch(s, i) ELSE " ") \o SubOthers(s, i + 1)

\* re.sub(r'\s+', ' ', s): a maximal run of whitespace becomes one space
RECURSIVE SubSpaces(_, _)
SubSpaces(s, i) ==
    IF i > Len(s) THEN ""
    ELSE (IF ~IsSpace(Ch(s, i)) THEN Ch(s, i)
          ELSE IF i > 1 /\ IsSpace(Ch(s, i - 1)) THEN "" ELSE " ")
         \o SubSpaces(s, i + 1)

clean_text(text) == Strip(SubSpaces(SubOthers(Lower(text), 1), 1))

(***************************************************************************)
(* core/scraper.py: save_jobs_to_db on table jobs of core/db.py.  A row    *)
(* is kept as its columns title, company and job_url; a column bound to    *)
(* None is NULL.                                                           *)
(***************************************************************************)
\* the parameters bound from the dict: job.get(key) is None without the key
row_of(j) ==
    [title |-> Get(j, "title", None),
     company |-> Get(j, "company", None),
     job_url |-> Get(j, "job_url", None)]

\* title TEXT NOT NULL
violates_not_null(row) == row.title = None

\* job_url TEXT UNIQUE: NULL never conflicts
violates_unique(table, row) ==
    /\ row.job_url # None
    /\ \E i \in 1..Len(table) : table[i].job_url = row.job_url

\* INSERT without conflict clause, for a row that names a title
insert_plain(table, row) ==
    IF violates_not_null(row)
    THEN [table |-> table, rowcount |-> 0]
    ELSE [table |-> Append(table, row), rowcount |-> 1]

\* INSERT OR IGNORE INTO jobs: a row that violates a constraint is dropped
insert_or_ignore(table, row) ==
    IF violates_not_null(row) \/ violates_unique(table, row)
    THEN [table |-> table, rowcount |-> 0]
    ELSE [table |-> Append(table, row), rowcount |-> 1]

\* the loop of save_jobs_to_db from js[i] on
RECURSIVE save_from(_, _, _, _)
save_from(js, i, table, inserted) ==
    IF i > Len(js) THEN [table |-> table, inserted |-> inserted]
    ELSE LET done == insert_or_ignore(table, row_of(js[i]))
         IN  save_from(js, i + 1, done.table,
                       IF done.rowcount > 0 THEN inserted + 1 ELSE inserted)

save_jobs_to_db(js, table) == save_from(js, 1, table, 0)

(***************************************************************************)
(* Inputs.  A posting is the dict the scraper, the sample loader or the    *)
(* manual-add form builds; the taxonomy is the content of                  *)
(* data/skill_taxonomy.json.                                               *)
(***************************************************************************)
TaxonomyFile ==
    [user_strong |-> {"python", "sql"}, user_moderate |-> {"spark", "tableau"},
     user_emerging |-> {"llm"}, user_weak |-> {"java"}]

\* the file with any of its four lists left out
TaxonomyFiles ==
    {[k \in K |-> TaxonomyFile[k]] : K \in SUBSET DOMAIN TaxonomyFile}

_load_skill_sets(taxonomy) ==
    [strong |-> Get(taxonomy, "user_strong", {}),
     moderate |-> Get(taxonomy, "user_moderate", {}),
     emerging |-> Get(taxonomy, "user_emerging", {}),
     weak |-> Get(taxonomy, "user_weak", {})]

Taxonomy == [strong |-> {"python", "sql"}, moderate |-> {"spark", "tableau"},
             emerging |-> {"llm"}, weak |-> {"java"}]

Posting(t, c, d, l, jt, sal, noc) ==
    LET input == [title |-> t, company |-> c, description |-> d,
                  location |-> l, job_type |-> jt,
                  salary_min |-> sal[1], salary_max |-> sal[2],
                  salary_interval |-> sal[3]]
    IN  IF noc = "" THEN input
        ELSE Update(input, [noc_code |-> noc,
                            noc_description |-> NOC_DESCRIPTIONS[noc]])

\* postings scored once
Titles == {"", "Senior Data Scientist", "Data Engineer",
           "Junior Business Analyst", "Lead Quant Researcher",
           "Office Clerk"}
Companies == {"", "Amazon", "Clio", "Acme Bank"}
Descriptions == {"", "Leetcode round. System design.",
                 "Canadian experience required. Permanent.",
                 "Case study, stakeholder dashboard. Python SQL Spark.",
                 "Global startup, visa sponsorship. Java, LLM."}
Locations == {"", "Vancouver, BC", "Remote", "Toronto, Canada"}
JobTypes == {"", "fulltime", "contract"}
Salaries == {<<0, 0, "yearly">>, <<160000, 0, "yearly">>}
StoredNocs == {"", "21211"}

Postings ==
    {Posting(t, c, d, l, jt, sal, noc) :
        t \in Titles, c \in Companies, d \in Descriptions, l \in Locations,
        jt \in JobTypes, sal \in Salaries, noc \in StoredNocs}

\* postings that are scored, edited and scored again
EditTitles == {"Senior Data Scientist", "Junior Business Analyst",
               "Office Clerk"}
EditCompanies == {"Amazon", "Clio"}
EditDescriptions == {"Leetcode round. Senior team.",
                     "Case study, stakeholder dashboard. Python SQL Spark."}
EditLocations == {"Vancouver, BC", "Remote"}
EditJobTypes == {"fulltime", "contract"}
EditSalaries == {<<0, 0, "yearly">>, <<30, 40, "hourly">>}

EditPostings ==
    {Posting(t, c, d, l, jt, sal, "") :
        t \in EditTitles, c \in EditCompanies, d \in EditDescriptions,
        l \in EditLocations, jt \in EditJobTypes, sal \in EditSalaries}

\* postings of a batch
BatchPostings ==
    {Posting("Junior Data Scientist", "Acme Corp",
             "Global team. Permanent role.", "Vancouver, BC", "fulltime",
             <<0, 0, "yearly">>, ""),
     Posting("Junior Data Scientist", "Acme Corp",
             "Global team. Permanent role.", "Remote", "fulltime",
             <<0, 0, "yearly">>, ""),
     Posting("Junior Data Scientist", "Acme Corp",
             "Global team. Permanent role.", "Vancouver, BC",
             "fulltime, contract", <<0, 0, "yearly">>, ""),
     Posting("Senior Data Scientist", "Amazon",
             "Leetcode round. Senior team.", "Remote", "fulltime",
             <<160000, 0, "yearly">>, ""),
     Posting("Senior Data Scientist", "Amazon",
             "Leetcode round. Senior team.", "", "",
             <<160000, 0, "yearly">>, ""),
     Posting("Business Analyst", "Clio", "Python SQL dashboard.",
             "Toronto, Canada", "contract", <<30, 40, "hourly">>, "")}

\* postings with fields left out, empty or null
SparseTitles == {"", "Data Analyst"}
SparseDescriptions == {"", "Python and SQL. Some Java."}
SparseCompanies == {<<>>, <<"">>, <<None>>, <<"Clio">>}
SparseSalaries == {<<>>, <<0, 0>>, <<90000, 0>>}

\* a field given as <<>> is left out of the dict
SparsePosting(t, d, c, sal) ==
    [title |-> t, description |-> d]
    @@ (IF c = <<>> THEN NoDetails ELSE [company |-> c[1]])
    @@ (IF sal = <<>> THEN NoDetails
        ELSE [salary_min |-> sal[1], salary_max |-> sal[2]])

SparsePostings ==
    {SparsePosting(t, d, c, sal) :
        t \in SparseTitles, d \in SparseDescriptions,
        c \in SparseCompanies, sal \in SparseSalaries}

\* arguments of assign_tier
TierTitles == {"", "Junior Business Analyst", "Data Engineer",
               "Senior Data Scientist", "Junior Clerk", "Quant Researcher"}
TierCompanies == {"", "Amazon", "Clio", "Acme Corp"}
TierDescriptions == {"", "Canadian experience required.",
                     "Local experience in insurance."}
TierJobTypes == {"", "fulltime", "Contract"}
InterviewScores == {0, 29, 30, 44, 45, 50, 69, 70, 100}
SuccessScores == {0, 59, 60, 100}

TierScores ==
    {[score_interview |-> i, score_success |-> s] :
        i \in InterviewScores, s \in SuccessScores}
    \cup {[score_success |-> s] : s \in SuccessScores}
    \cup {[score_interview |-> i] : i \in InterviewScores}

TierArgs ==
    {[job |-> [title |-> t, company |-> c, description |-> d,
               job_type |-> jt],
      scores |-> sc] :
        t \in TierTitles, c \in TierCompanies, d \in TierDescriptions,
        jt \in TierJobTypes, sc \in TierScores}

\* arguments of score_salary
SalaryBounds == {-50000, 0, 72, 2000, 40000, 54999, 55000, 69999, 70000, 84999,
                 85000, 99999, 100000, 119999, 120000, 144999, 145000}
Intervals == {"", "yearly", "hourly", "monthly", "weekly", "Hourly"}

SalaryArgs ==
    {[salary_min |-> lo, salary_max |-> hi, interval |-> iv] :
        lo \in SalaryBounds, hi \in SalaryBounds, iv \in Intervals}

\* arguments of score_skills_match: a taxonomy with up to three phrases in
\* a set, and descriptions that name any of its phrases
SkillTaxonomy ==
    [strong |-> {"python", "sql"}, moderate |-> {"spark", "tableau", "excel"},
     emerging |-> {"llm", "rag", "nlp"}, weak |-> {"java"}]

SkillWords ==
    <<"Python", "SQL", "Spark", "Tableau", "Excel", "LLM", "RAG", "NLP",
      "Java">>

RECURSIVE Mention(_, _)
\* the words at the positions of K from position i on, separated by ", "
Mention(K, i) ==
    IF i > Len(SkillWords) THEN ""
    ELSE IF i \notin K THEN Mention(K, i + 1)
    ELSE IF \E k \in K : k > i
    THEN SkillWords[i] \o ", " \o Mention(K, i + 1)
    ELSE SkillWords[i]

SkillTitles == {"", "Office Clerk", "SQL Developer"}
SkillDescriptions == {Mention(K, 1) : K \in SUBSET (1..Len(SkillWords))}

SkillArgs ==
    {[title |-> t, description |-> d, skill_sets |-> SkillTaxonomy] :
        t \in SkillTitles, d \in SkillDescriptions}

\* longest list handed to rank_jobs
MaxJobs == 3

BatchLists == UNION {[1..n -> BatchPostings] : n \in 0..MaxJobs}

(***************************************************************************)
(* Batch ranker: rank_jobs                                                 *)
(***************************************************************************)
\* list.sort(key=score_total, reverse=True) on the list of positions 1..n:
\* a stable sort, equal keys keep their order
\* variant of InsertDesc: an equal key is placed before the ones already there
RECURSIVE InsertDescUnstable(_, _, _)
InsertDescUnstable(sorted, i, key) ==
    IF sorted = <<>> THEN <<i>>
    ELSE IF key[Head(sorted)] > key[i]
         THEN <<Head(sorted)>> \o InsertDescUnstable(Tail(sorted), i, key)
         ELSE <<i>> \o sorted

RECURSIVE InsertDesc(_, _, _)
InsertDesc(sorted, i, key) ==
    IF sorted = <<>> THEN <<i>>
    ELSE IF key[Head(sorted)] >= key[i]
         THEN <<Head(sorted)>> \o InsertDesc(Tail(sorted), i, key)
         ELSE <<i>> \o sorted

RECURSIVE SortDescFrom(_, _, _)
SortDescFrom(sorted, i, key) ==
    IF i > Len(key) THEN sorted
    ELSE SortDescFrom(InsertDesc(sorted, i, key), i + 1, key)

SortDesc(key) == SortDescFrom(<<>>, 1, key)

\* [jobs, ranked]: the dicts of the list after the call, each updated in
\* place, and the returned list as positions of the argument list
sort_by_total(scored) ==
    [jobs |-> scored,
     ranked |-> SortDesc([i \in 1..Len(scored) |->
                             Get(scored[i], "score_total", 0)])]

\* variant of skill_sets_or_load: the file is read for every posting
skill_sets_reloaded(skill_sets, taxonomy) == _load_skill_sets(taxonomy)

\* rank_job: if skill_sets is None: skill_sets = _load_skill_sets()
\* (None is kept as the empty dict)
skill_sets_or_load(skill_sets, taxonomy) ==
    IF DOMAIN skill_sets = {} THEN _load_skill_sets(taxonomy) ELSE skill_sets

\* position of the first dict on which rank_job raises, Len(js) + 1 when
\* it raises on none
first_raise(js) ==
    IF \E i \in 1..Len(js) : rank_job_raises(js[i])
    THEN CHOOSE i \in 1..Len(js) :
            /\ rank_job_raises(js[i])
            /\ \A k \in 1..(i - 1) : ~rank_job_raises(js[k])
    ELSE Len(js) + 1

rank_jobs_raises(js) == first_raise(js) <= Len(js)

\* the dicts before the first raise are updated in place
rank_jobs(js, skill_sets) ==
    sort_by_total([i \in 1..Len(js) |->
                      IF i < first_raise(js)
                      THEN rank_job(js[i], skill_sets) ELSE js[i]])

(***************************************************************************)
(* State                                                                   *)
(***************************************************************************)
VARIABLES
    job,         \* the posting dict handed to rank_job
    skill_sets,  \* the taxonomy the scorers are given
    jobs,        \* the list handed to rank_jobs
    ranked,      \* the list rank_jobs returned, as positions in jobs
    args,        \* arguments of a direct call of assign_tier or score_salary
    result,      \* <<value>> once that call has returned
    pc,          \* where the caller is
    taxonomy_file, \* the parsed content of data/skill_taxonomy.json
    jobs_table   \* the rows of table jobs in data/jobs.db, oldest first

vars == <<job, skill_sets, jobs, ranked, args, result, pc, taxonomy_file,
          jobs_table>>

NoJob == [k \in {} |-> 0]
Scored(j) == "score_total" \in DOMAIN j

(***************************************************************************)
(* Spec: one posting is scored, edited by its owner and scored again       *)
(***************************************************************************)
Init ==
    /\ taxonomy_file = TaxonomyFile
    /\ jobs_table = <<>>
    /\ job \in EditPostings
    /\ skill_sets = Taxonomy
    /\ jobs = <<>> /\ ranked = <<>>
    /\ args = NoJob /\ result = <<>>
    /\ pc = "new"

RankJob ==
    /\ pc \in {"new", "edited", "scored", "rescored"}
    /\ IF rank_job_raises(job)
       THEN /\ job' = job
            /\ pc' = "raised"
       ELSE /\ job' = rank_job(job, skill_sets)
            /\ pc' = IF pc \in {"new", "edited"} THEN "scored"
                     ELSE "rescored"
    /\ UNCHANGED <<skill_sets, jobs, ranked, args, result, taxonomy_file,
                   jobs_table>>

Edit(upd) ==
    /\ pc \in {"new", "edited", "scored", "rescored"}
    /\ \E k \in DOMAIN upd : job[k] # upd[k]
    /\ job' = Update(job, upd)
    /\ pc' = IF pc = "new" THEN "new" ELSE "edited"
    /\ UNCHANGED <<skill_sets, jobs, ranked, args, result, taxonomy_file,
                   jobs_table>>

EditTitle == \E t \in EditTitles : Edit([title |-> t])
EditCompany == \E c \in EditCompanies : Edit([company |-> c])
EditDescription == \E d \in EditDescriptions : Edit([description |-> d])
EditLocation == \E l \in EditLocations : Edit([location |-> l])
EditJobType == \E jt \in EditJobTypes : Edit([job_type |-> jt])
EditSalary ==
    \E sal \in EditSalaries :
        Edit([salary_min |-> sal[1], salary_max |-> sal[2],
              salary_interval |-> sal[3]])

Next ==
    \/ RankJob
    \/ EditTitle
    \/ EditCompany
    \/ EditDescription
    \/ EditLocation
    \/ EditJobType
    \/ EditSalary

Spec == Init /\ [][Next]_vars

(***************************************************************************)
(* SpecScore: any posting is scored                                        *)
(***************************************************************************)
InitScore ==
    /\ taxonomy_file = TaxonomyFile
    /\ jobs_table = <<>>
    /\ job \in Postings
    /\ skill_sets = Taxonomy
    /\ jobs = <<>> /\ ranked = <<>>
    /\ args = NoJob /\ result = <<>>
    /\ pc = "new"

NextScore == RankJob

SpecScore == InitScore /\ [][NextScore]_vars

(***************************************************************************)
(* SpecTier: direct calls of assign_tier                                   *)
(***************************************************************************)
InitTier ==
    /\ taxonomy_file = TaxonomyFile
    /\ jobs_table = <<>>
    /\ args \in TierArgs
    /\ result = <<>>
    /\ pc = "call"
    /\ job = NoJob /\ skill_sets = Taxonomy
    /\ jobs = <<>> /\ ranked = <<>>

AssignTier ==
    /\ pc = "call"
    /\ "scores" \in DOMAIN args
    /\ result' = <<assign_tier(args.job, args.scores)>>
    /\ pc' = "return"
    /\ UNCHANGED <<job, skill_sets, jobs, ranked, args, taxonomy_file,
                   jobs_table>>

NextTier == AssignTier

SpecTier == InitTier /\ [][NextTier]_vars

(***************************************************************************)
(* SpecSalary: direct calls of score_salary                                *)
(***************************************************************************)
InitSalary ==
    /\ taxonomy_file = TaxonomyFile
    /\ jobs_table = <<>>
    /\ args \in SalaryArgs
    /\ result = <<>>
    /\ pc = "call"
    /\ job = NoJob /\ skill_sets = Taxonomy
    /\ jobs = <<>> /\ ranked = <<>>

ScoreSalary ==
    /\ pc = "call"
    /\ "interval" \in DOMAIN args
    /\ result' = <<score_salary(args.salary_min, args.salary_max,
                                args.interval)>>
    /\ pc' = "return"
    /\ UNCHANGED <<job, skill_sets, jobs, ranked, args, taxonomy_file,
                   jobs_table>>

NextSalary == ScoreSalary

SpecSalary == InitSalary /\ [][NextSalary]_vars

(***************************************************************************)
(* SpecSkills: direct calls of score_skills_match                          *)
(***************************************************************************)
InitSkills ==
    /\ taxonomy_file = TaxonomyFile
    /\ jobs_table = <<>>
    /\ args \in SkillArgs
    /\ result = <<>>
    /\ pc = "call"
    /\ job = NoJob /\ skill_sets = Taxonomy
    /\ jobs = <<>> /\ ranked = <<>>

ScoreSkills ==
    /\ pc = "call"
    /\ "skill_sets" \in DOMAIN args
    /\ result' = <<score_skills_match(args.title, args.description,
                                      args.skill_sets)>>
    /\ pc' = "return"
    /\ UNCHANGED <<job, skill_sets, jobs, ranked, args, taxonomy_file,
                   jobs_table>>

NextSkills == ScoreSkills

SpecSkills == InitSkills /\ [][NextSkills]_vars

(***************************************************************************)
(* SpecBatch: a list of postings is handed to rank_jobs                    *)
(***************************************************************************)
InitBatch ==
    /\ taxonomy_file = TaxonomyFile
    /\ jobs_table = <<>>
    /\ jobs \in BatchLists
    /\ ranked = <<>>
    /\ pc = "loaded"
    /\ job = NoJob /\ skill_sets = Taxonomy
    /\ args = NoJob /\ result = <<>>

\* rank_jobs(jobs): the skill sets are loaded from the file
RankJobs ==
    /\ pc = "loaded"
    /\ skill_sets' = _load_skill_sets(taxonomy_file)
    /\ \E r \in {rank_jobs(jobs, skill_sets')} :
           /\ jobs' = r.jobs
           /\ ranked' = IF rank_jobs_raises(jobs) THEN <<>> ELSE r.ranked
    /\ pc' = IF rank_jobs_raises(jobs) THEN "raised" ELSE "ranked"
    /\ UNCHANGED <<job, args, result, taxonomy_file,
                   jobs_table>>

NextBatch == RankJobs

SpecBatch == InitBatch /\ [][NextBatch]_vars

(***************************************************************************)
(* SpecDefault: rank_job(job) is called without skill sets, on a dict that *)
(* may lack fields, with whatever the taxonomy file holds                  *)
(***************************************************************************)
InitDefault ==
    /\ taxonomy_file \in TaxonomyFiles
    /\ jobs_table = <<>>
    /\ job \in SparsePostings
    /\ skill_sets = NoJob
    /\ jobs = <<>> /\ ranked = <<>>
    /\ args = NoJob /\ result = <<>>
    /\ pc = "new"

RankJobDefault ==
    /\ pc = "new"
    /\ skill_sets' = _load_skill_sets(taxonomy_file)
    /\ IF rank_job_raises(job)
       THEN /\ job' = job
            /\ pc' = "raised"
       ELSE /\ job' = rank_job(job, skill_sets')
            /\ pc' = "scored"
    /\ UNCHANGED <<jobs, ranked, args, result, taxonomy_file,
                   jobs_table>>

NextDefault == RankJobDefault

SpecDefault == InitDefault /\ [][NextDefault]_vars

(***************************************************************************)
(* SpecClean: direct calls of clean_text                                   *)
(***************************************************************************)
MaxText == 3

TextChars == {"A", "b", "7", " ", "\t", "_", "/", "-", "+", ".", "#"}

RECURSIVE TextsUpTo(_)
TextsUpTo(n) ==
    IF n = 0 THEN {""}
    ELSE LET T == TextsUpTo(n - 1)
         IN  T \cup {t \o c : t \in T, c \in TextChars}

CleanArgs == {[text |-> t] : t \in TextsUpTo(MaxText)}

InitClean ==
    /\ taxonomy_file = TaxonomyFile
    /\ jobs_table = <<>>
    /\ args \in CleanArgs
    /\ result = <<>>
    /\ pc = "call"
    /\ job = NoJob /\ skill_sets = Taxonomy
    /\ jobs = <<>> /\ ranked = <<>>

CleanText ==
    /\ pc = "call"
    /\ "text" \in DOMAIN args
    /\ result' = <<clean_text(args.text)>>
    /\ pc' = "return"
    /\ UNCHANGED <<job, skill_sets, jobs, ranked, args, taxonomy_file,
                   jobs_table>>

NextClean == CleanText

SpecClean == InitClean /\ [][NextClean]_vars

(***************************************************************************)
(* SpecStore: lists of postings are saved, one call after the other        *)
(***************************************************************************)
MaxRows == 3

Stored(t, c, u) == [title |-> t, company |-> c, job_url |-> u]

StoreJobs ==
    {Stored("Data Analyst", "Clio", "https://a/1"),
     Stored("Data Analyst", "Telus", "https://a/1"),
     Stored("Data Analyst", "Telus", "https://a/2"),
     Stored("Data Analyst", "Clio", ""),
     [title |-> "Data Analyst", company |-> "Clio"],
     [company |-> "Clio", job_url |-> "https://a/2"]}

StoreLists == {<<>>} \cup {<<j>> : j \in StoreJobs}
                \cup {<<j, k>> : j \in StoreJobs, k \in StoreJobs}

InitStore ==
    /\ taxonomy_file = TaxonomyFile
    /\ jobs_table = <<>>
    /\ jobs = <<>>
    /\ result = <<>>
    /\ pc = "idle"
    /\ job = NoJob /\ skill_sets = Taxonomy
    /\ ranked = <<>> /\ args = NoJob

\* save_jobs_to_db(jobs) on the table as it stands
SaveJobs ==
    /\ pc \in {"idle", "saved"}
    /\ \E js \in StoreLists :
           /\ Len(jobs_table) + Len(js) <= MaxRows
           /\ jobs' = js
           /\ \E r \in {save_jobs_to_db(js, jobs_table)} :
                  /\ jobs_table' = r.table
                  /\ result' = <<r.inserted>>
    /\ pc' = "saved"
    /\ UNCHANGED <<job, skill_sets, ranked, args, taxonomy_file>>

NextStore == SaveJobs

SpecStore == InitStore /\ [][NextStore]_vars

(***************************************************************************)
(* SpecPathway: direct calls of score_immigration_fit                      *)
(***************************************************************************)
PathwayTitles ==
    {"", None, "Senior Data Scientist", "Senior Staff ML Engineer",
     "Principal Consultant, Senior", "Lead Data Analyst, Analytics",
     "Senior Team Lead", "Junior Lead Clerk", "Entry Level Clerk",
     "Office Clerk"}
PathwayDescriptions == {"", "Permanent role.", "A full-time position.",
                        "Contract, six months."}
PathwayLocations == {"", None, "Vancouver, BC", "Remote (Vancouver)",
                     "Remote", "Remote, Canada", "Toronto, Canada",
                     "Seattle, WA"}
PathwayJobTypes == {"", "fulltime", "Permanent", "contract", "temporary",
                    "Full-time contract", "internship"}
PathwayNocs == {"", None, "21211", "11201"}

PathwayArgs ==
    [title : PathwayTitles, description : PathwayDescriptions,
     location : PathwayLocations, job_type : PathwayJobTypes,
     noc_code : PathwayNocs]

InitPathway ==
    /\ taxonomy_file = TaxonomyFile
    /\ jobs_table = <<>>
    /\ args \in PathwayArgs
    /\ result = <<>>
    /\ pc = "call"
    /\ job = NoJob /\ skill_sets = Taxonomy
    /\ jobs = <<>> /\ ranked = <<>>

ScoreImmigrationFit ==
    /\ pc = "call"
    /\ "noc_code" \in DOMAIN args
    /\ result' = <<score_immigration_fit(args.title, args.description,
                                         args.location, args.job_type,
                                         args.noc_code)>>
    /\ pc' = "return"
    /\ UNCHANGED <<job, skill_sets, jobs, ranked, args, taxonomy_file,
                   jobs_table>>

NextPathway == ScoreImmigrationFit

SpecPathway == InitPathway /\ [][NextPathway]_vars

(***************************************************************************)
(* SpecInterview: direct calls of score_interview_format                   *)
(***************************************************************************)
InterviewTitles ==
    {"", None, "Office Clerk", "Data Scientist", "Data Engineer",
     "Consultant", "Data Engineer Consultant",
     "Product Manager, Data Analyst", "Applied Scientist / Data Scientist"}
InterviewCompanies ==
    {"", None, "Acme", "Amazon", "Clio", "Deloitte for Amazon", "Acme Bank"}
InterviewDescriptions ==
    {"", "Case study and presentation.",
     "Leetcode, whiteboard. System design.",
     "Stakeholder dashboard. Strong programming.",
     "Hospital and clinic reporting. Take-home.",
     "Leetcode. Code review. Expert in Python. Strong programming.",
     "Case study, stakeholder, Tableau for a retail bank."}

InterviewArgs ==
    [title : InterviewTitles, company : InterviewCompanies,
     description : InterviewDescriptions]

InitInterview ==
    /\ taxonomy_file = TaxonomyFile
    /\ jobs_table = <<>>
    /\ args \in InterviewArgs
    /\ result = <<>>
    /\ pc = "call"
    /\ job = NoJob /\ skill_sets = Taxonomy
    /\ jobs = <<>> /\ ranked = <<>>

ScoreInterviewFormat ==
    /\ pc = "call"
    /\ DOMAIN args = {"title", "company", "description"}
    /\ result' = <<score_interview_format(args)>>
    /\ pc' = "return"
    /\ UNCHANGED <<job, skill_sets, jobs, ranked, args, taxonomy_file,
                   jobs_table>>

NextInterview == ScoreInterviewFormat

SpecInterview == InitInterview /\ [][NextInterview]_vars

(***************************************************************************)
(* SpecSuccess: direct calls of calculate_success_score                    *)
(***************************************************************************)
SuccessTitles ==
    {"", "Data Analyst", "Senior Data Scientist", "Lead Quant Analyst",
     "Junior Consultant", "Cybersecurity Data Analyst"}
SuccessCompanies == {"", None, "Acme", "Amazon", "Clio"}
SuccessLocations == {"", "Remote", "Vancouver, BC"}
SuccessDescriptions ==
    {"",
     "Canadian experience required. International applicants welcome.",
     "International candidates welcome. Global team.",
     "Global team, remote-first.",
     "Visa sponsorship available. Diversity and inclusion.",
     "No visa sponsorship.",
     "No sponsorship available.",
     "We do not sponsor work visas.",
     "Work permit required, we will not sponsor.",
     "Local experience in insurance. Mandarin, knowledge graph."}

SuccessArgs ==
    [title : SuccessTitles, company : SuccessCompanies,
     location : SuccessLocations, description : SuccessDescriptions]

InitSuccess ==
    /\ taxonomy_file = TaxonomyFile
    /\ jobs_table = <<>>
    /\ args \in SuccessArgs
    /\ result = <<>>
    /\ pc = "call"
    /\ job = NoJob /\ skill_sets = Taxonomy
    /\ jobs = <<>> /\ ranked = <<>>

CalculateSuccessScore ==
    /\ pc = "call"
    /\ DOMAIN args = {"title", "company", "location", "description"}
    /\ IF calculate_success_score_raises(args)
       THEN /\ result' = <<>>
            /\ pc' = "raised"
       ELSE /\ result' = <<calculate_success_score(args)>>
            /\ pc' = "return"
    /\ UNCHANGED <<job, skill_sets, jobs, ranked, args, taxonomy_file,
                   jobs_table>>

NextSuccess == CalculateSuccessScore

SpecSuccess == InitSuccess /\ [][NextSuccess]_vars

(***************************************************************************)
(* SpecCompany: direct calls of score_company                              *)
(***************************************************************************)
CompanyNames ==
    {"", "  ", None, "Acme", "Amazon", " Clio ", "Clio at Amazon", "A",
     "Ben", "BC", "Royal Bank (RBC)", "Zz"}
CompanyDescriptions ==
    {"", None, "Fortune 500. Well-funded startup.", "Series B startup.",
     "Seed stage.", "Series A, series C.", "Enterprise software.",
     "A team of analysts."}

CompanyArgs == [company : CompanyNames, description : CompanyDescriptions]

InitCompany ==
    /\ taxonomy_file = TaxonomyFile
    /\ jobs_table = <<>>
    /\ args \in CompanyArgs
    /\ result = <<>>
    /\ pc = "call"
    /\ job = NoJob /\ skill_sets = Taxonomy
    /\ jobs = <<>> /\ ranked = <<>>

ScoreCompany ==
    /\ pc = "call"
    /\ DOMAIN args = {"company", "description"}
    /\ result' = <<score_company(args.company, args.description)>>
    /\ pc' = "return"
    /\ UNCHANGED <<job, skill_sets, jobs, ranked, args, taxonomy_file,
                   jobs_table>>

NextCompany == ScoreCompany

SpecCompany == InitCompany /\ [][NextCompany]_vars

(***************************************************************************)
(* SpecReload: rank_jobs scores its list one posting after the other while *)
(* the taxonomy file is replaced by another version                        *)
(***************************************************************************)
\* the taxonomy file after an edit: sql and spark are rated weak
TaxonomyFileEdited ==
    [user_strong |-> {"python"}, user_moderate |-> {"tableau"},
     user_emerging |-> {"llm"}, user_weak |-> {"java", "sql", "spark"}]

TaxonomyVersions == {TaxonomyFile, TaxonomyFileEdited}

ReloadPostings ==
    {Posting("Data Analyst", "Clio", "Python SQL Spark.", "Remote",
             "fulltime", <<0, 0, "yearly">>, ""),
     Posting("Office Clerk", "Acme", "Excel. SQL reporting.", "",
             "contract", <<0, 0, "yearly">>, ""),
     Posting("Data Scientist", None, "Python, LLM.", "Vancouver, BC",
             "fulltime", <<0, 0, "yearly">>, "")}

ReloadLists == UNION {[1..n -> ReloadPostings] : n \in 0..MaxJobs}

\* position of the next posting of the list comprehension
next_job(js) ==
    IF \A i \in 1..Len(js) : Scored(js[i]) THEN Len(js) + 1
    ELSE CHOOSE i \in 1..Len(js) :
             ~Scored(js[i]) /\ \A k \in 1..(i - 1) : Scored(js[k])

InitReload ==
    /\ taxonomy_file \in TaxonomyVersions
    /\ jobs_table = <<>>
    /\ jobs \in ReloadLists
    /\ ranked = <<>>
    /\ pc = "called"
    /\ job = NoJob /\ skill_sets = NoJob
    /\ args = NoJob /\ result = <<>>

\* skill_sets = _load_skill_sets()
LoadSkillSets ==
    /\ pc = "called"
    /\ skill_sets' = _load_skill_sets(taxonomy_file)
    /\ pc' = "scoring"
    /\ UNCHANGED <<job, jobs, ranked, args, result, taxonomy_file,
                   jobs_table>>

\* one iteration of [rank_job(job, skill_sets) for job in jobs]
ScoreNextJob ==
    /\ pc = "scoring"
    /\ next_job(jobs) <= Len(jobs)
    /\ \E i \in {next_job(jobs)} :
           IF rank_job_raises(jobs[i])
           THEN /\ jobs' = jobs
                /\ pc' = "raised"
           ELSE /\ jobs' = [jobs EXCEPT
                               ![i] = rank_job(jobs[i],
                                               skill_sets_or_load(
                                                   skill_sets,
                                                   taxonomy_file))]
                /\ pc' = "scoring"
    /\ UNCHANGED <<job, skill_sets, ranked, args, result, taxonomy_file,
                   jobs_table>>

\* ranked.sort(...); return ranked
SortRanked ==
    /\ pc = "scoring"
    /\ next_job(jobs) > Len(jobs)
    /\ ranked' = sort_by_total(jobs).ranked
    /\ pc' = "ranked"
    /\ UNCHANGED <<job, skill_sets, jobs, args, result, taxonomy_file,
                   jobs_table>>

\* data/skill_taxonomy.json is replaced by another version
ReplaceTaxonomyFile ==
    /\ pc \in {"called", "scoring"}
    /\ \E v \in TaxonomyVersions \ {taxonomy_file} : taxonomy_file' = v
    /\ UNCHANGED <<job, skill_sets, jobs, ranked, args, result, pc,
                   jobs_table>>

NextReload ==
    \/ LoadSkillSets
    \/ ScoreNextJob
    \/ SortRanked
    \/ ReplaceTaxonomyFile

SpecReload == InitReload /\ [][NextReload]_vars

(***************************************************************************)
(* SpecEligible: postings with and without a stored occupation code are    *)
(* scored                                                                  *)
(***************************************************************************)
EligibleTitles == {"", "Office Clerk", "Senior Data Scientist",
                   "Strategy Consultant"}
\* <<>> when the dict has no noc_code
EligibleNocs == {<<>>, <<"">>, <<None>>, <<"21211">>, <<"11201">>,
                 <<"99999">>}
EligibleLocations == {"", "Vancouver, BC"}
EligibleJobTypes == {"fulltime", "contract"}
EligibleDescriptions == {"", "Permanent role."}

EligiblePostings ==
    {[title |-> t, company |-> "Acme", description |-> d, location |-> l,
      job_type |-> jt]
     @@ (IF noc = <<>> THEN NoDetails ELSE [noc_code |-> noc[1]]) :
        t \in EligibleTitles, d \in EligibleDescriptions,
        l \in EligibleLocations, jt \in EligibleJobTypes,
        noc \in EligibleNocs}

InitEligible ==
    /\ taxonomy_file = TaxonomyFile
    /\ jobs_table = <<>>
    /\ job \in EligiblePostings
    /\ skill_sets = Taxonomy
    /\ jobs = <<>> /\ ranked = <<>>
    /\ args = NoJob /\ result = <<>>
    /\ pc = "new"

\* the posting is scored, and scored again by a later pass
NextEligible == RankJob

SpecEligible == InitEligible /\ [][NextEligible]_vars

(***************************************************************************)
(* SpecTierOne: postings of companies of either tier-1 list are scored     *)
(***************************************************************************)
TierOneTitles == {"Data Analyst", "Senior Data Scientist"}
TierOneCompanies == {"", "Acme", "Amazon", "Nvidia", "Netflix", "Hootsuite",
                     "Clio", "BCHydro", "Shaw"}
TierOneDescriptions == {"", "Global enterprise.", "Seed stage startup."}
TierOneLocations == {"", "Vancouver, BC"}

TierOnePostings ==
    {Posting(t, c, d, l, "fulltime", <<0, 0, "yearly">>, "") :
        t \in TierOneTitles, c \in TierOneCompanies,
        d \in TierOneDescriptions, l \in TierOneLocations}

InitTierOne ==
    /\ taxonomy_file = TaxonomyFile
    /\ jobs_table = <<>>
    /\ job \in TierOnePostings
    /\ skill_sets = Taxonomy
    /\ jobs = <<>> /\ ranked = <<>>
    /\ args = NoJob /\ result = <<>>
    /\ pc = "new"

NextTierOne == RankJob

SpecTierOne == InitTierOne /\ [][NextTierOne]_vars

(***************************************************************************)
(* Properties                                                              *)
(***************************************************************************)
SCORE_KEYS == {"score_skills", "score_immigration", "score_interview",
               "score_salary", "score_company", "score_success"}

INPUT_KEYS == {"title", "company", "location", "description", "job_type",
               "salary_min", "salary_max", "salary_interval"}

\* what a scoring pass attaches to a posting
ScoreSet(j) ==
    [k \in SCORE_KEYS \cup {"score_total", "priority", "tier",
                            "success_details", "interview_format_details"}
        |-> j[k]]

\* the posting as it was before any scoring pass
InputFields(j) == [k \in INPUT_KEYS \cap DOMAIN j |-> j[k]]

\* C1: after rank_job every one of the six dimension scores is an integer
\* in 0..100 and the weighted total lies in [0, 100] (0..1000 tenths).
C1_ScoresInRange ==
    Scored(job) =>
        /\ \A k \in SCORE_KEYS : job[k] \in 0..100
        /\ job.score_total \in 0..1000

\* a posting whose pathway adjustments add up to more than 100 and whose
\* interview adjustments add up to less than 0 has been scored
C1_Witness ==
    /\ Scored(job)
    /\ job.title = "Senior Data Scientist" /\ job.company = "Amazon"
    /\ job.description = "Leetcode round. System design."
    /\ job.location = "Vancouver, BC" /\ job.job_type = "fulltime"
    /\ job.noc_code = "21211"
    /\ job.score_immigration = 100
    /\ job.score_interview = 0

\* C2: assign_tier returns A whenever the interview score is below 30.
C2_InterviewOverride ==
    (pc = "return" /\ Get(args.scores, "score_interview", 50) < 30)
        => result = <<"A">>

\* interview score 29, three quick-win signals, no stretch signal besides
\* the interview score itself
C2_Witness ==
    /\ pc = "return"
    /\ Get(args.scores, "score_interview", 50) = 29
    /\ quickwin_signals(args.job, args.scores) >= 3
    /\ stretch_signals(args.job, [score_interview |-> 50]) = 0
    /\ result = <<"A">>

\* C3: assign_tier returns A whenever the title matches the
\* engineering-heavy role list.
C3_EngineeringOverride ==
    (pc = "return" /\ AnyIn(ENGINEERING_ROLES, Lower(args.job.title)))
        => result = <<"A">>

\* an engineering title with interview score >= 70, a contract and a small
\* company
C3_Witness ==
    /\ pc = "return"
    /\ args.job.title = "Data Engineer"
    /\ Get(args.scores, "score_interview", 50) >= 70
    /\ args.job.job_type = "Contract"
    /\ args.job.company = "Clio"
    /\ result = <<"A">>

NoOverride(a) ==
    /\ Get(a.scores, "score_interview", 50) >= 30
    /\ ~AnyIn(ENGINEERING_ROLES, Lower(a.job.title))

\* C4: when no override fires the tier is A if stretch_signals >= 2 and
\* quickwin_signals < 2, else C if quickwin_signals >= 2 or the success
\* score is >= 60, else B; the tier is always one of A, B, C.
C4_FinalDecision ==
    pc = "return" =>
        LET st == stretch_signals(args.job, args.scores)
            qw == quickwin_signals(args.job, args.scores)
            success == Get(args.scores, "score_success", 50)
            tier == result[1]
        IN  /\ tier \in {"A", "B", "C"}
            /\ NoOverride(args) =>
                /\ tier = "A" <=> (st >= 2 /\ qw < 2)
                /\ tier = "C" <=> (~(st >= 2 /\ qw < 2)
                                   /\ (qw >= 2 \/ success >= 60))
                /\ tier = "B" <=> (~(st >= 2 /\ qw < 2)
                                   /\ qw < 2 /\ success < 60)

\* no override, fewer than two signals of either kind, success exactly 60
C4_Witness ==
    /\ pc = "return"
    /\ NoOverride(args)
    /\ stretch_signals(args.job, args.scores) < 2
    /\ quickwin_signals(args.job, args.scores) < 2
    /\ Get(args.scores, "score_success", 50) = 60
    /\ result = <<"C">>

SameScores(a, b) ==
    /\ \A k \in SCORE_KEYS : a[k] = b[k]
    /\ a.score_total = b.score_total

SameText(a, b) ==
    /\ a.title = b.title
    /\ a.company = b.company
    /\ a.description = b.description

\* C5, as claimed: two scored postings that agree on the six scores, the
\* total, the title, the company and the description have the same tier and
\* the same priority.
C5_TierFromScoresAndText ==
    pc = "ranked" =>
        \A a \in 1..Len(jobs), b \in 1..Len(jobs) :
            (SameScores(jobs[a], jobs[b]) /\ SameText(jobs[a], jobs[b]))
                => /\ jobs[a].tier = jobs[b].tier
                   /\ jobs[a].priority = jobs[b].priority

\* C5, amended: two scored postings that agree on the six scores, the
\* total, the title, the company, the description and the job type have the
\* same tier and the same priority.
C5_TierFromScoresTextAndJobType ==
    pc = "ranked" =>
        \A a \in 1..Len(jobs), b \in 1..Len(jobs) :
            (/\ SameScores(jobs[a], jobs[b])
             /\ SameText(jobs[a], jobs[b])
             /\ jobs[a].job_type = jobs[b].job_type)
                => /\ jobs[a].tier = jobs[b].tier
                   /\ jobs[a].priority = jobs[b].priority

\* two scored postings of one batch agree on scores, text and job type and
\* differ in location
C5_Witness ==
    /\ pc = "ranked"
    /\ \E a \in 1..Len(jobs), b \in 1..Len(jobs) :
          /\ SameScores(jobs[a], jobs[b])
          /\ SameText(jobs[a], jobs[b])
          /\ jobs[a].job_type = jobs[b].job_type
          /\ jobs[a].location # jobs[b].location
          /\ jobs[a].tier = jobs[b].tier

\* C6: rank_jobs returns every posting of its argument exactly once, each
\* scored, in descending order of total, postings of equal total in the
\* order of the argument.
C6_SortedStablePermutation ==
    pc = "ranked" =>
        /\ Len(ranked) = Len(jobs)
        /\ {ranked[k] : k \in 1..Len(ranked)} = 1..Len(jobs)
        /\ \A i \in 1..Len(jobs) :
              Scored(jobs[i]) /\ InputFields(jobs[i]) \in BatchPostings
        /\ \A k \in 1..Len(ranked), l \in 1..Len(ranked) :
              k < l =>
                /\ jobs[ranked[k]].score_total >= jobs[ranked[l]].score_total
                /\ jobs[ranked[k]].score_total = jobs[ranked[l]].score_total
                      => ranked[k] < ranked[l]

\* a list of three with a tie between different postings and a posting that
\* had to move forward
C6_Witness ==
    /\ pc = "ranked"
    /\ Len(jobs) = 3
    /\ \E k \in 1..2 :
          /\ jobs[ranked[k]].score_total = jobs[ranked[k + 1]].score_total
          /\ InputFields(jobs[ranked[k]]) # InputFields(jobs[ranked[k + 1]])
    /\ ranked[1] = 3

\* C7: scoring a posting that the previous step scored leaves the six
\* scores, the total, the priority, the tier and both explanation maps
\* as they were.
C7_Idempotent ==
    [][pc' = "rescored" => ScoreSet(job') = ScoreSet(job)]_vars

\* a posting carrying a guessed occupation code has been scored twice in a row
C7_Witness ==
    /\ pc = "rescored"
    /\ job.noc_code # ""
    /\ job.bcpnp_eligible = 1

\* C8: after any sequence of score and edit steps, the ScoreSet left by the
\* last rank_job is the ScoreSet of a never-scored posting with the same
\* input fields.
C8_RescoreEqualsFresh ==
    pc \in {"scored", "rescored"} =>
        ScoreSet(job) = ScoreSet(rank_job(InputFields(job), skill_sets))

\* score tier of a doubled annual figure: the bucket it falls in
SalaryTier(annual2) ==
    CHOOSE t \in {100, 90, 80, 65, 50, 30, 15} :
        /\ t = 100 <=> annual2 >= 290000
        /\ t = 90 <=> (240000 <= annual2 /\ annual2 < 290000)
        /\ t = 80 <=> (200000 <= annual2 /\ annual2 < 240000)
        /\ t = 65 <=> (170000 <= annual2 /\ annual2 < 200000)
        /\ t = 50 <=> (140000 <= annual2 /\ annual2 < 170000)
        /\ t = 30 <=> (110000 <= annual2 /\ annual2 < 140000)
        /\ t = 15 <=> annual2 < 110000

\* hourly * 2080, monthly * 12, weekly * 52, anything else already annual
AnnualByInterval(salary, interval) ==
    LET ivl == Lower(interval)
    IN  IF In("hour", ivl) THEN salary * 2080
        ELSE IF In("month", ivl) THEN salary * 12
        ELSE IF In("week", ivl) THEN salary * 52
        ELSE salary

\* C9: the salary figure is annualized by interval before the thresholds
\* apply: hourly * 2080, monthly * 12, weekly * 52, anything else as it is.
C9_AnnualizedByInterval ==
    (pc = "return" /\ (args.salary_min # 0 \/ args.salary_max # 0)) =>
        result = <<SalaryTier(AnnualByInterval(
                        pick_salary2(args.salary_min, args.salary_max),
                        args.interval))>>

\* C10: 50 when neither bound is present; else the midpoint when both are,
\* else the bound that is, annualized, scores 100 from 145000, 90 from
\* 120000, 80 from 100000, 65 from 85000, 50 from 70000, 30 from 55000 and
\* 15 below.
C10_MidpointAndThresholds ==
    pc = "return" =>
        LET lo == args.salary_min
            hi == args.salary_max
            figure2 == IF lo # 0 /\ hi # 0 THEN lo + hi
                       ELSE IF lo # 0 THEN lo + lo
                       ELSE hi + hi
        IN  result = <<IF lo = 0 /\ hi = 0 THEN 50
                       ELSE SalaryTier(annualize(figure2, args.interval))>>

\* both bounds present, with a midpoint half a unit below a threshold
C10_Witness ==
    /\ pc = "return"
    /\ args.salary_min = 144999 /\ args.salary_max = 145000
    /\ args.interval = "yearly"
    /\ result = <<90>>

\* C11: a call of score_salary with a negative salary bound fails with a
\* validation error: it never returns a compensation score.
C11_NegativeSalaryRejected ==
    (args.salary_min < 0 \/ args.salary_max < 0) => pc # "return"

\* C12: no posting is scored while the taxonomy file lacks one of its four
\* proficiency lists.
C12_NoScoreWithPartialTaxonomy ==
    Scored(job) =>
        {"user_strong", "user_moderate", "user_emerging", "user_weak"}
            \subseteq DOMAIN taxonomy_file

\* absent: the field is missing, empty or null
Absent(j, k) == k \notin DOMAIN j \/ j[k] = "" \/ j[k] = None

\* C13: rank_job never raises on missing data; an absent company scores 50
\* for reputation, an absent salary 50 for compensation, and an empty title
\* with an empty description 50 for skills.
C13_MissingDataNeverRaises ==
    pc # "new" =>
        /\ pc # "raised"
        /\ Scored(job)
        /\ Absent(job, "company") => job.score_company = 50
        /\ ("salary_min" \notin DOMAIN job \/ job.salary_min = 0)
               => job.score_salary = 50
        /\ (job.title = "" /\ job.description = "") => job.score_skills = 50

\* C14: score_skills_match returns 50 when no taxonomy phrase occurs in the
\* lower-cased title plus description, and otherwise the integer nearest to
\* (s * 1.0 + m * 0.7 + e * 0.4 + w * 0.1) / (s + m + e + w) * 100, within
\* 0..100, for the numbers s, m, e, w of strong, moderate, emerging and weak
\* phrases that occur.
C14_SkillsReference ==
    (pc = "return" /\ "skill_sets" \in DOMAIN args) =>
        LET text == Lower(args.title \o " " \o args.description)
            n(S) == Cardinality({p \in S : In(p, text)})
            s == n(args.skill_sets.strong)
            m == n(args.skill_sets.moderate)
            e == n(args.skill_sets.emerging)
            w == n(args.skill_sets.weak)
            total == s + m + e + w
            \* the weighted sum times 1000
            sum1000 == 1000 * s + 700 * m + 400 * e + 100 * w
            dist(r) == IF r * total * 10 >= sum1000
                       THEN r * total * 10 - sum1000
                       ELSE sum1000 - r * total * 10
        IN  IF total = 0 THEN result = <<50>>
            ELSE \E r \in 0..100 :
                    /\ result = <<r>>
                    /\ 2 * dist(r) <= total * 10

\* one strong and three moderate phrases: the exact ratio 77.5 lies halfway
\* between two integers
C14_Witness ==
    /\ pc = "return"
    /\ "skill_sets" \in DOMAIN args
    /\ args.title = ""
    /\ args.description = "Python, Spark, Tableau, Excel"
    /\ result = <<77>>

\* C15: the total is the weighted sum skills * 0.30 + pathway * 0.25
\* + interview * 0.15 + (compensation + reputation + success) * 0.10 rounded
\* to one decimal, that is a multiple of 0.1 at most 0.05 away from the
\* exact sum; the priority is HIGH from a total of 75, MEDIUM from 55 and
\* LOW below.
C15_TotalAndPriority ==
    Scored(job) =>
        LET \* the exact weighted sum times 1000
            sum1000 == 300 * job.score_skills + 250 * job.score_immigration
                       + 150 * job.score_interview + 100 * job.score_salary
                       + 100 * job.score_company + 100 * job.score_success
            total1000 == 100 * job.score_total
            dist == IF total1000 >= sum1000 THEN total1000 - sum1000
                    ELSE sum1000 - total1000
        IN  /\ dist <= 50
            /\ job.score_total >= 750 => job.priority = "HIGH"
            /\ (550 <= job.score_total /\ job.score_total < 750)
                   => job.priority = "MEDIUM"
            /\ job.score_total < 550 => job.priority = "LOW"

\* the exact sum 74.95 is rounded to 75.0, which is HIGH
C15_Witness ==
    /\ Scored(job)
    /\ job.title = "Junior Business Analyst" /\ job.company = "Clio"
    /\ job.description = "Canadian experience required. Permanent."
    /\ job.location = "" /\ job.job_type = "fulltime"
    /\ job.salary_min = 160000
    /\ job.score_skills = 50 /\ job.score_immigration = 95
    /\ job.score_interview = 100 /\ job.score_salary = 100
    /\ job.score_company = 75 /\ job.score_success = 37
    /\ job.score_total = 750
    /\ job.priority = "HIGH"

\* the posting of the end-to-end scenario: Senior Data Scientist at Amazon,
\* a description with "leetcode" and "senior", 160000 per year
Scenario(j) ==
    /\ Scored(j)
    /\ j.title = "Senior Data Scientist" /\ j.company = "Amazon"
    /\ In("leetcode", Lower(j.description))
    /\ In("senior", Lower(j.description))
    /\ j.salary_min = 160000 /\ j.salary_max = 0
    /\ j.salary_interval = "yearly"

\* delta of an entry of an explanation map, <<>> when the entry is absent
Delta(details, key) ==
    IF key \in DOMAIN details THEN <<details[key].delta>> ELSE <<>>

\* 50, +30 occupation code, +10 priority title, the location and job type
\* values of the posting, +5 senior
ScenarioPathway(j) ==
    Min(100, 50 + 30 + 10 + (IF j.location = "Remote" THEN 5 ELSE 0)
             + (IF j.job_type = "fulltime" THEN 5 ELSE 0) + 5)

\* C16 as stated: in the scenario the interview scorer applies -30 for the
\* role, -20 for the company and -25 for the coding phrase and the score is
\* clamped at 0; the pathway score includes +5 for senior; the tier is A by
\* signal accumulation, no hard override firing.
C16_ScenarioBySignals ==
    \A i \in 1..Len(jobs) :
        Scenario(jobs[i]) =>
            /\ Delta(jobs[i].interview_format_details, "role_type") = <<-30>>
            /\ Delta(jobs[i].interview_format_details, "company_format")
                   = <<-20>>
            /\ Delta(jobs[i].interview_format_details, "jd_coding_signal")
                   = <<-25>>
            /\ jobs[i].score_interview = 0
            /\ jobs[i].score_immigration = ScenarioPathway(jobs[i])
            /\ jobs[i].tier = "A"
            /\ jobs[i].score_interview >= 30
            /\ stretch_signals(jobs[i], jobs[i]) >= 2

\* C16: in the scenario the interview scorer applies 0 for the role (data
\* scientist is a mixed role), -20 for the company and -25 for the coding
\* phrase, the interview score is 5; the pathway score includes +5 for
\* senior; the tier is A by the interview override (score below 30).
C16_ScenarioByOverride ==
    \A i \in 1..Len(jobs) :
        Scenario(jobs[i]) =>
            /\ Delta(jobs[i].interview_format_details, "role_type") = <<0>>
            /\ Delta(jobs[i].interview_format_details, "company_format")
                   = <<-20>>
            /\ Delta(jobs[i].interview_format_details, "jd_coding_signal")
                   = <<-25>>
            /\ DOMAIN jobs[i].interview_format_details
                   = {"role_type", "company_format", "jd_coding_signal"}
            /\ jobs[i].score_interview = 5
            /\ jobs[i].score_immigration = ScenarioPathway(jobs[i])
            /\ jobs[i].tier = "A"
            /\ jobs[i].score_interview < 30

\* the scenario posting, with no location and no job type, has been ranked
C16_Witness ==
    /\ pc = "ranked"
    /\ \E i \in 1..Len(jobs) :
           /\ Scenario(jobs[i])
           /\ jobs[i].location = "" /\ jobs[i].job_type = ""
           /\ jobs[i].score_immigration = 95
           /\ jobs[i].score_interview = 5
           /\ jobs[i].tier = "A"

\* the phrasing for which calculate_success_score applies its -25
ExplicitLocalExperience(description) ==
    \/ In("canadian experience", Lower(description))
    \/ In("local experience", Lower(description))

\* C17: when no override fires, a description with explicit
\* local-experience-required phrasing adds 2 to stretch_signals; with fewer
\* than two quick-win signals the tier is therefore A.
C17_LocalExperienceStretch ==
    (/\ pc = "return"
     /\ NoOverride(args)
     /\ ExplicitLocalExperience(args.job.description)
     /\ quickwin_signals(args.job, args.scores) < 2) => result = <<"A">>

\* the characters of s that satisfy P, in order
RECURSIVE Only(_, _, _)
Only(P(_), s, i) ==
    IF i > Len(s) THEN ""
    ELSE (IF P(Ch(s, i)) THEN Ch(s, i) ELSE "") \o Only(P, s, i + 1)

\* alphanumeric, or one of the four symbols the normalizer keeps
IsSurface(c) ==
    c \in UPPER \cup LOWER \cup DIGITS \cup {"/", "-", "+", "."}

\* C18: clean_text lower-cases, turns every character that is not
\* alphanumeric, whitespace, '/', '-', '+' or '.' into a space (an
\* underscore too), collapses whitespace and trims: the output holds only
\* lower-case alphanumerics, the four symbols and single inner spaces, its
\* characters other than spaces are the lower-cased alphanumerics and
\* symbols of the input, and the empty string gives the empty string.
C18_CleanTextSurface ==
    (pc = "return" /\ "text" \in DOMAIN args) =>
        LET out == result[1]
        IN  /\ \A i \in 1..Len(out) :
                \/ Ch(out, i) \in LOWER \cup DIGITS \cup {"/", "-", "+", "."}
                \/ /\ Ch(out, i) = " "
                   /\ 1 < i /\ i < Len(out)
                   /\ Ch(out, i + 1) # " "
            /\ Only(IsSurface, out, 1) = Lower(Only(IsSurface, args.text, 1))
            /\ args.text = "" => out = ""

\* no two rows of the table have the same job_url
UniqueUrls(table) ==
    \A i, k \in 1..Len(table) :
        (i # k /\ table[i].job_url # None) =>
            table[i].job_url # table[k].job_url

\* what a call of save_jobs_to_db did to the table
SavedAsClaimed(before, js, after, returned) ==
    \* the rows stored before the call are unchanged
    /\ Len(after) >= Len(before)
    /\ SubSeq(after, 1, Len(before)) = before
    \* a posting whose job_url was stored already added no row
    /\ \A i \in 1..Len(js) :
           ("job_url" \in DOMAIN js[i]
               /\ \E k \in 1..Len(before) : before[k].job_url = js[i].job_url)
           => \A k \in (Len(before) + 1)..Len(after) :
                  after[k].job_url # js[i].job_url
    \* the call returned the number of rows it added
    /\ returned = Len(after) - Len(before)

\* C19: after any sequence of save_jobs_to_db calls no two stored rows share
\* a job_url (a row stored without one holds NULL, which is no URL); a
\* posting whose job_url is already stored is skipped and the stored rows
\* stay as they are; each call returns the number of rows it added.
C19_UniqueUrlAndCount ==
    /\ [](UniqueUrls(jobs_table))
    /\ [][pc' = "saved" =>
            SavedAsClaimed(jobs_table, jobs', jobs_table', result'[1])]_vars

\* a posting with a stored job_url and another company was skipped, the
\* other posting of the same call was added
C19_Witness ==
    /\ pc = "saved"
    /\ jobs = <<Stored("Data Analyst", "Telus", "https://a/1"),
                Stored("Data Analyst", "Telus", "https://a/2")>>
    /\ jobs_table = <<Stored("Data Analyst", "Clio", "https://a/1"),
                      Stored("Data Analyst", "Telus", "https://a/2")>>
    /\ result = <<1>>

\* C20: score_immigration_fit is 50, plus 30 for an occupation code of the
\* priority set, plus 10 once for a title with a priority-role phrase, plus
\* one location value (10 in British Columbia, else 5 remote, else 3 in
\* Canada), plus one employment-type value (5 full-time or permanent, else
\* -15 contract or temporary), plus 5 for a description that mentions
\* permanent or full-time, plus one seniority value (5 senior without staff
\* or principal, else 3 lead, else -5 junior or entry), within 0..100.
C20_PathwayFormula ==
    (pc = "return" /\ "noc_code" \in DOMAIN args) =>
        LET t == Lower(OrEmpty(args.title))
            d == Lower(OrEmpty(args.description))
            l == Lower(OrEmpty(args.location))
            jt == Lower(OrEmpty(args.job_type))
            has(w, text) == In(w, text)
            points ==
                [noc |-> IF args.noc_code \in BCPNP_TECH_NOCS THEN 30 ELSE 0,
                 title |-> IF \E k \in 1..Len(PRIORITY_TITLES) :
                                  has(PRIORITY_TITLES[k], t)
                           THEN 10 ELSE 0,
                 location |->
                     CASE \E k \in 1..Len(BC_INDICATORS) :
                              has(BC_INDICATORS[k], l) -> 10
                       [] OTHER ->
                            CASE has("remote", l) -> 5
                              [] OTHER -> IF has("canada", l) THEN 3 ELSE 0,
                 job_type |->
                     CASE has("full", jt) \/ has("permanent", jt) -> 5
                       [] OTHER ->
                            IF has("contract", jt) \/ has("temporary", jt)
                            THEN -15 ELSE 0,
                 description |->
                     IF has("permanent", d) \/ has("full-time", d)
                     THEN 5 ELSE 0,
                 seniority |->
                     CASE has("senior", t) /\ ~has("staff", t)
                              /\ ~has("principal", t) -> 5
                       [] OTHER ->
                            CASE has("lead", t) -> 3
                              [] OTHER ->
                                   IF has("junior", t) \/ has("entry", t)
                                   THEN -5 ELSE 0]
            sum == 50 + points.noc + points.title + points.location
                      + points.job_type + points.description
                      + points.seniority
        IN  result = <<IF sum > 100 THEN 100 ELSE IF sum < 0 THEN 0 ELSE sum>>

\* a title with two priority phrases and the word lead, a remote location
\* that also names a city of the region, a job type that names both
\* full-time and contract, no occupation code: 50 + 10 + 10 + 5 + 5 + 3
C20_Witness ==
    /\ pc = "return"
    /\ "noc_code" \in DOMAIN args
    /\ args.title = "Lead Data Analyst, Analytics"
    /\ args.description = "Permanent role."
    /\ args.location = "Remote (Vancouver)"
    /\ args.job_type = "Full-time contract"
    /\ args.noc_code = ""
    /\ result = <<83>>

\* sum of the deltas of the entries of an explanation map under the keys K
RECURSIVE DeltaSum(_, _)
DeltaSum(details, K) ==
    IF K = {} THEN 0
    ELSE LET k == CHOOSE x \in K : TRUE
         IN  details[k].delta + DeltaSum(details, K \ {k})

\* score_interview_format has returned
InterviewReturned ==
    pc = "return" /\ DOMAIN args = {"title", "company", "description"}

\* the returned score is 50 plus `delta` plus the deltas of the entries
\* other than `key`, within 0..100
InterviewScoreWith(key, delta) ==
    LET details == result[1].details
        sum == 50 + delta + DeltaSum(details, DOMAIN details \ {key})
    IN  result[1].score = IF sum > 100 THEN 100 ELSE IF sum < 0 THEN 0 ELSE sum

\* C21: the role adjustment of score_interview_format is one of +35, -30
\* and 0, the first match over never-coding, heavy-coding and mixed roles:
\* a title with a never-coding and a heavy-coding role gets +35 only, a
\* title with only a mixed role keeps the score and records an explanation.
C21_RoleFirstMatch ==
    InterviewReturned =>
        LET title == Lower(OrEmpty(args.title))
            never == \E k \in 1..Len(NO_CODING_ROLES) :
                         In(NO_CODING_ROLES[k], title)
            heavy == \E k \in 1..Len(HEAVY_CODING_ROLES) :
                         In(HEAVY_CODING_ROLES[k], title)
            mixed == \E k \in 1..Len(MIXED_ROLES) : In(MIXED_ROLES[k], title)
            adjustment == IF never THEN 35 ELSE IF heavy THEN -30 ELSE 0
        IN  /\ Delta(result[1].details, "role_type") =
                   IF never \/ heavy \/ mixed THEN <<adjustment>> ELSE <<>>
            /\ InterviewScoreWith("role_type", adjustment)

\* a title with a never-coding and a heavy-coding role
C21_Witness ==
    /\ InterviewReturned
    /\ args.title = "Data Engineer Consultant"
    /\ args.company = "Acme" /\ args.description = ""
    /\ result[1].score = 85
    /\ result[1].details.role_type = [delta |-> 35, note |-> "consultant"]

\* C22: the company adjustment of score_interview_format is one of -20, +15
\* and 0: a company of the live-coding list gets -20 and the take-home list
\* is not consulted; +15 is given only to a company that matches no
\* live-coding entry; the two never both apply.
C22_CompanyEitherOr ==
    InterviewReturned =>
        LET company == Lower(OrEmpty(args.company))
            live == \E k \in 1..Len(LIVE_CODING_COMPANIES) :
                        In(LIVE_CODING_COMPANIES[k], company)
            takehome == \E k \in 1..Len(TAKEHOME_COMPANIES) :
                            In(TAKEHOME_COMPANIES[k], company)
            adjustment == IF live THEN -20 ELSE IF takehome THEN 15 ELSE 0
        IN  /\ Delta(result[1].details, "company_format") =
                   IF live \/ takehome THEN <<adjustment>> ELSE <<>>
            /\ InterviewScoreWith("company_format", adjustment)

\* a company name with an entry of either list
C22_Witness ==
    /\ InterviewReturned
    /\ args.company = "Deloitte for Amazon"
    /\ args.title = "Office Clerk" /\ args.description = ""
    /\ result[1].score = 30
    /\ result[1].details.company_format = [delta |-> -20, note |-> "amazon"]

\* the branches of score_interview_format and the delta each one records,
\* for the lower-cased title, company and description
InterviewBranches(title, company, description) ==
    LET any(kws, text) == \E k \in 1..Len(kws) : In(kws[k], text)
        never == any(NO_CODING_ROLES, title)
        heavy == any(HEAVY_CODING_ROLES, title)
        live == any(LIVE_CODING_COMPANIES, company)
    IN  [role_type |->
             IF never THEN <<35>> ELSE IF heavy THEN <<-30>>
             ELSE IF any(MIXED_ROLES, title) THEN <<0>> ELSE <<>>,
         company_format |->
             IF live THEN <<-20>>
             ELSE IF any(TAKEHOME_COMPANIES, company) THEN <<15>> ELSE <<>>,
         jd_format_positive |->
             IF any(<<"case study", "take-home", "take home", "presentation",
                      "case presentation">>, description)
             THEN <<15>> ELSE <<>>,
         jd_business_focus |->
             IF any(<<"stakeholder", "cross-functional", "executive",
                      "business partner", "strategic thinking">>, description)
             THEN <<10>> ELSE <<>>,
         jd_bi_focus |->
             IF any(<<"tableau", "power bi", "looker", "dashboard",
                      "visualization", "reporting">>, description)
             THEN <<8>> ELSE <<>>,
         jd_coding_signal |->
             IF any(<<"leetcode", "hackerrank", "coderpad",
                      "coding challenge", "coding assessment", "live coding",
                      "technical screen", "whiteboard">>, description)
             THEN <<-25>> ELSE <<>>,
         jd_engineering_signal |->
             IF any(<<"system design", "design a system", "production code",
                      "code review", "write efficient", "optimize query">>,
                    description)
             THEN <<-15>> ELSE <<>>,
         jd_strong_coding |->
             IF any(<<"strong programming", "expert in python">>, description)
             THEN <<-10>> ELSE <<>>,
         industry |->
             IF any(NON_TECH_KEYWORDS, description)
                \/ any(NON_TECH_KEYWORDS, company)
             THEN <<10>> ELSE <<>>]

\* C23: the explanation map of score_interview_format has an entry for
\* every branch that fired and for no other, each with the delta of its
\* branch, and the score is 50 plus the sum of the recorded deltas, within
\* 0..100.
C23_InterviewDetailsExplainScore ==
    InterviewReturned =>
        LET details == result[1].details
            fired == InterviewBranches(Lower(OrEmpty(args.title)),
                                       Lower(OrEmpty(args.company)),
                                       Lower(OrEmpty(args.description)))
            sum == 50 + DeltaSum(details, DOMAIN details)
        IN  /\ DOMAIN details \subseteq DOMAIN fired
            /\ \A key \in DOMAIN fired : Delta(details, key) = fired[key]
            /\ result[1].score =
                   IF sum > 100 THEN 100 ELSE IF sum < 0 THEN 0 ELSE sum

\* six branches fired, among them the mixed-role entry of delta 0:
\* 50 + 0 - 20 + 15 + 10 + 8 + 10
C23_Witness ==
    /\ InterviewReturned
    /\ args.title = "Data Scientist"
    /\ args.company = "Deloitte for Amazon"
    /\ args.description = "Case study, stakeholder, Tableau for a retail bank."
    /\ DOMAIN result[1].details =
           {"role_type", "company_format", "jd_format_positive",
            "jd_business_focus", "jd_bi_focus", "industry"}
    /\ result[1].score = 73

\* calculate_success_score has returned
SuccessReturned ==
    /\ pc = "return"
    /\ DOMAIN args = {"title", "company", "location", "description"}

\* the returned score is 40 plus `delta` plus the deltas of the entries
\* other than `key`, within 0..100
SuccessScoreWith(key, delta) ==
    LET details == result[1].details
        sum == 40 + delta + DeltaSum(details, DOMAIN details \ {key})
    IN  result[1].score = IF sum > 100 THEN 100 ELSE IF sum < 0 THEN 0 ELSE sum

C25_SponsorshipSignal ==
    SuccessReturned =>
        LET description == Lower(args.description)
            phrasing == In("visa sponsorship", description)
                        \/ In("work permit", description)
            negated == In("no sponsorship", description)
                       \/ In("not sponsor", description)
                       \/ In("no visa", description)
        IN  Delta(result[1].details, "visa_signal") =
                IF negated THEN <<-10>>
                ELSE IF phrasing THEN <<5>>
                ELSE <<>>

\* the niche bonuses of calculate_success_score that match, as key and delta
NicheBonuses(title, description) ==
    LET any(kws) == \E w \in kws : In(w, description)
    IN  [niche |->
             IF In("cybersecurity", title)
                /\ (In("data", title) \/ In("ml", title)
                    \/ In("machine learning", description))
             THEN <<10>> ELSE <<>>,
         niche_china |->
             IF any({"chinese market", "china", "apac", "asia pacific",
                     "mandarin"}) THEN <<10>> ELSE <<>>,
         niche_quant |->
             IF In("quantitative", title) \/ In("quant", title)
             THEN <<8>> ELSE <<>>,
         niche_insurance |->
             IF any({"insurance", "insurtech"}) THEN <<8>> ELSE <<>>,
         niche_gnn |->
             IF any({"graph neural", "gnn", "knowledge graph"})
             THEN <<10>> ELSE <<>>,
         niche_consulting |->
             IF In("consulting", title) \/ In("consultant", title)
             THEN <<8>> ELSE <<>>]

CompanyReturned == pc = "return" /\ DOMAIN args = {"company", "description"}

\* C27: score_company is 50 for an empty company name (the name is taken
\* lower-cased and trimmed); otherwise 90 if a tier-1 entry contains the
\* name or is contained in it; otherwise 75 for such a tier-2 entry;
\* otherwise the first description heuristic that matches, large
\* enterprise 80, growth stage 70, early stage 55; otherwise 60.
C27_CompanyScore ==
    CompanyReturned =>
        LET name == Strip(Lower(OrEmpty(args.company)))
            text == Lower(OrEmpty(args.description))
            match(tier) ==
                \E k \in 1..Len(COMPANY_TIERS[tier]) :
                    \/ In(COMPANY_TIERS[tier][k], name)
                    \/ In(name, COMPANY_TIERS[tier][k])
            says(kws) == \E w \in kws : In(w, text)
            expected ==
                CASE name = "" -> 50
                  [] name # "" /\ match("tier1") -> 90
                  [] name # "" /\ ~match("tier1") /\ match("tier2") -> 75
                  [] OTHER ->
                       IF says({"fortune 500", "global", "enterprise",
                                "publicly traded"}) THEN 80
                       ELSE IF says({"series b", "series c", "series d",
                                     "well-funded"}) THEN 70
                       ELSE IF says({"startup", "early stage", "seed",
                                     "series a"}) THEN 55
                       ELSE 60
        IN  /\ result = <<expected>>
            /\ result[1] \in {50, 55, 60, 70, 75, 80, 90}

\* a company name with a tier-2 and a tier-1 entry
C27_Witness ==
    /\ CompanyReturned
    /\ args.company = "Clio at Amazon"
    /\ args.description = "Series B startup."
    /\ result = <<90>>

\* every posting scored so far has the skills score of the taxonomy `sets`
ScoredAgainst(sets) ==
    \A i \in 1..Len(jobs) :
        Scored(jobs[i]) =>
            jobs[i].score_skills =
                score_skills_match(jobs[i].title, jobs[i].description, sets)

\* C28: within one rank_jobs batch the taxonomy is loaded once, before any
\* posting is scored, and every posting is scored against that snapshot: a
\* replacement of the file while the batch is in flight is not seen by any
\* part of the batch.
C28_OneSnapshotPerBatch ==
    /\ [](pc = "called" => \A i \in 1..Len(jobs) : ~Scored(jobs[i]))
    /\ [](pc \in {"scoring", "raised", "ranked"} => ScoredAgainst(skill_sets))
    /\ [][skill_sets' # skill_sets =>
              /\ pc = "called"
              /\ skill_sets' = _load_skill_sets(taxonomy_file)]_vars

\* the file was replaced after the load, and a posting that scores 90 under
\* the snapshot and 40 under the file as it is now was scored afterwards
C28_Witness ==
    /\ pc = "ranked"
    /\ Len(jobs) = 2
    /\ skill_sets = _load_skill_sets(TaxonomyFile)
    /\ taxonomy_file = TaxonomyFileEdited
    /\ jobs[2].description = "Python SQL Spark."
    /\ jobs[2].score_skills = 90
    /\ score_skills_match(jobs[2].title, jobs[2].description,
                          _load_skill_sets(taxonomy_file)) = 40

\* the pathway score of a scored posting without the occupation-code bonus
\* (at most 85, so the bonus of 30 always shows in the score)
PathwayWithoutCode(j) ==
    score_immigration_fit(j.title, j.description, j.location, j.job_type, "")

\* C29: after rank_job the flag bcpnp_eligible is 1 exactly when the
\* pathway score holds the +30 of a priority occupation code; both follow
\* the occupation code of the posting (the stored one, else the one guessed
\* from the title), and an empty code gives flag 0 and no bonus.
C29_FlagIffBonus ==
    /\ [](Scored(job) =>
            LET bonus == job.score_immigration # PathwayWithoutCode(job)
            IN  /\ job.bcpnp_eligible \in {0, 1}
                /\ job.bcpnp_eligible = 1 <=> bonus
                /\ bonus => job.score_immigration =
                                Min(100, PathwayWithoutCode(job) + 30)
                /\ bonus <=> job.noc_code \in BCPNP_TECH_NOCS
                /\ job.noc_code = "" => (job.bcpnp_eligible = 0 /\ ~bonus))
    /\ [][Scored(job') =>
              LET stored == OrEmpty(Get(job, "noc_code", ""))
              IN  job'.noc_code =
                      IF stored # "" THEN stored
                      ELSE guess_noc_from_title(job.title)[1]]_vars

\* a posting whose code, guessed from its title, is eligible for the regular
\* stream only: no flag and no bonus
C29_Witness ==
    /\ Scored(job)
    /\ job.title = "Strategy Consultant"
    /\ job.noc_code = "11201"
    /\ job.bcpnp_eligible = 0
    /\ job.location = "Vancouver, BC" /\ job.job_type = "fulltime"
    /\ job.description = "Permanent role."
    /\ job.score_immigration = 80

\* the tier classifier counts the company of j as a stretch signal
StretchForCompany(j) ==
    stretch_signals(j, j) = stretch_signals([j EXCEPT !.company = ""], j) + 1

\* C30: a company is tier-1 for all scorers or for none: score_company
\* rates it 90 exactly when the tier classifier counts it as a stretch
\* signal and exactly when the success scorer applies the competition
\* penalty of a top company (-15 or -8).
C30_SameTierOneNotion ==
    Scored(job) =>
        LET rated == job.score_company = 90
            competition == job.success_details.competition.delta
        IN  /\ rated <=> StretchForCompany(job)
            /\ rated <=> competition \in {-15, -8}

====
